---- MODULE Spec2Model ----
(***************************************************************************)
(* A model of the Tidal tree-walking evaluator (src/src/interpreter.rs)    *)
(* and of the standard library it dispatches to (src/src/libs/std.rs).     *)
(*                                                                         *)
(* Values and syntax-tree nodes are tuples whose first element is the      *)
(* variant's name.  An array value is a handle (an index into heap): the   *)
(* Arc<Mutex<Vec<Value>>> of the source.  A string is a sequence of        *)
(* one-character strings.  A "world" is the Environment being evaluated    *)
(* against together with the heap and the standard output; an evaluation   *)
(* returns the world it left behind and an outcome, <<"Ok", value>> or     *)
(* <<"Err", kind>> (or <<"Panic", what>> for a process abort and           *)
(* <<"Diverge">> when the evaluation budget Fuel is used up).              *)
(***************************************************************************)
EXTENDS Integers, Sequences, FiniteSets, TLC

VARIABLES world, status, result, last, pre, steps, alias

vars == <<world, status, result, last, pre, steps, alias>>

(***************************************************************************)
(* Bounds of the model.                                                    *)
(***************************************************************************)
MaxSteps == 4
Fuel == 4
MaxInt == 20

I32Max == 2147483647

(***************************************************************************)
(* Value (the runtime data) and ASTNode (the syntax tree).                 *)
(***************************************************************************)
Value_Number(n) == <<"Number", n>>
Value_String(s) == <<"String", s>>
Value_Boolean(b) == <<"Boolean", b>>
\* An f64 that is the quotient n / d of two i32 (d = 0: an infinity of the sign
\* of n, or NaN when n = 0).
Value_Float(n, d) == <<"Float", n, d>>
Value_Null == <<"Null">>
Value_Type(t) == <<"Type", t>>
Value_Break == <<"Break">>
Value_Continue == <<"Continue">>
Value_Array(h) == <<"Array", h>>
Value_Function(name, params, body) == <<"Function", name, params, body>>
Value_ReturnValue(v) == <<"ReturnValue", v>>

IsArray(v) == v[1] = "Array"
IsNumber(v) == v[1] = "Number"

Node_Number(n) == <<"Number", n>>
Node_String(s) == <<"String", s>>
Node_Boolean(b) == <<"Boolean", b>>
Node_Null == <<"Null">>
Node_NoExpr == <<"NoExpr">>
Node_BinaryOp(l, op, r) == <<"BinaryOp", l, op, r>>
Node_UnaryOp(op, e) == <<"UnaryOp", op, e>>
Node_Print(e) == <<"Print", e>>
Node_Var(name, e, mutable) == <<"Var", name, e, mutable>>
Node_Assign(name, e) == <<"Assign", name, e>>
Node_Identifier(name) == <<"Identifier", name>>
Node_Index(e, i) == <<"Index", e, i>>
Node_IndexAssign(a, i, v) == <<"IndexAssign", a, i, v>>
Node_TypeCast(t, e) == <<"TypeCast", t, e>>
Node_If(c, ifb, elifs, hasElse, elseb) == <<"If", c, ifb, elifs, hasElse, elseb>>
Node_For(init, c, upd, body) == <<"For", init, c, upd, body>>
Node_While(c, body) == <<"While", c, body>>
Node_Array(elems) == <<"Array", elems>>
Node_Break == <<"Break">>
Node_Continue == <<"Continue">>
Node_FunctionDecl(name, params, body) == <<"FunctionDecl", name, params, body>>
Node_FunctionCall(name, args) == <<"FunctionCall", name, args>>
Node_LibraryFunctionCall(lib, name, args) == <<"LibraryFunctionCall", lib, name, args>>
Node_Import(name, mode) == <<"Import", name, mode>>
Node_LibraryAccess(lib, item) == <<"LibraryAccess", lib, item>>
Node_LenCall(e) == <<"LenCall", e>>
Node_DelCall(e) == <<"DelCall", e>>
Node_Return(e) == <<"Return", e>>

\* The parser's reading of a negative literal: 0 - n.
Node_Negative(n) == Node_BinaryOp(Node_Number(0), "Minus", Node_Number(n))

Node_Literal(n) == IF n < 0 THEN Node_Negative(0 - n) ELSE Node_Number(n)

(***************************************************************************)
(* Outcomes.                                                               *)
(***************************************************************************)
Ok(w, v) == [w |-> w, r |-> <<"Ok", v>>]
Err(w, kind) == [w |-> w, r |-> <<"Err", kind>>]
Panic(w, what) == [w |-> w, r |-> <<"Panic", what>>]
Diverge(w) == [w |-> w, r |-> <<"Diverge">>]
Unmodelled(w) == [w |-> w, r |-> <<"Unmodelled">>]
Overflow(w) == [w |-> w, r |-> <<"Overflow">>]

IsOk(res) == res.r[1] = "Ok"

\* An Ok that leaves interpret_node by `return Ok(..)`, past the trace of the
\* result that verbose mode writes after the match.
early(res) == IF IsOk(res) THEN [w |-> res.w, r |-> res.r, early |-> TRUE] ELSE res

IsEarly(res) == "early" \in DOMAIN res

\* F(v), with v evaluated once however often F refers to it.
Once(v, F(_)) == CHOOSE y \in {F(x) : x \in {v}} : TRUE
IsErr(res, kind) == res.r = <<"Err", kind>>
Fail(res, w) == [w |-> w, r |-> res.r]

(***************************************************************************)
(* Environment.                                                            *)
(***************************************************************************)
EmptyScope == [n \in {} |-> <<Value_Null, TRUE>>]

\* The names Environment::new registers as placeholders: the standard library's
\* function map, less the functions this model does not evaluate (del, input,
\* extend, count, upper, lower, strip).
StdFunctionNames == {"print", "len", "type", "copy", "insert", "sort", "reverse", "clear"}

StdLib_new == <<"StdLib">>
MathLib_new == <<"MathLib">>
SysLib_new == <<"SysLib">>
OSLib_new == <<"OSLib">>

\* An external module before initialize: its syntax tree, no functions, no
\* variables.  functions maps a name to <<params, body>>, variables a name to
\* <<value, mutable>>.
ExternalLibrary_new(ast) ==
    <<"ExternalLibrary", ast, [n \in {} |-> <<>>], [n \in {} |-> <<Value_Null, TRUE>>]>>

\* Option<&str>, the mode of an import.
NoMode == <<"None">>
SomeMode(m) == <<"Some", m>>

NoParent ==
    [present |-> FALSE, functions |-> [n \in {} |-> Value_Null], libraries |-> {}]

Environment_new(heap, out) ==
    [scopes |-> <<EmptyScope>>,
     functions |-> [n \in StdFunctionNames |-> Value_Function(<<"std", n>>, <<>>, <<>>)],
     in_function |-> FALSE,
     libraries |-> [l \in {"std"} |-> StdLib_new],
     parent |-> NoParent,
     heap |-> heap,
     out |-> out,
     is_verbose |-> FALSE]

push_scope(w) == [w EXCEPT !.scopes = Append(@, EmptyScope)]

\* A pop_scope that leaves the scope stack as it is.
pop_scope_keeping(w) == w

pop_scope(w) ==
    [w EXCEPT !.scopes = IF Len(@) = 0 THEN @ ELSE SubSeq(@, 1, Len(@) - 1)]

\* The index of the innermost scope that binds name, 0 when none does.
ScopeOf(w, name) ==
    LET hits == {i \in 1..Len(w.scopes) : name \in DOMAIN w.scopes[i]}
    IN IF hits = {} THEN 0 ELSE CHOOSE i \in hits : \A j \in hits : j <= i

Declared(w, name) == ScopeOf(w, name) # 0

get(w, name) == w.scopes[ScopeOf(w, name)][name]

ScopeInsert(scope, name, binding) ==
    [n \in DOMAIN scope \cup {name} |-> IF n = name THEN binding ELSE scope[n]]

ScopeRemove(scope, name) == [n \in DOMAIN scope \ {name} |-> scope[n]]

\* get_mut followed by a write of the value half of the binding.
SetValue(w, name, v) ==
    LET i == ScopeOf(w, name)
    IN [w EXCEPT !.scopes[i] = ScopeInsert(@, name, <<v, get(w, name)[2]>>)]

insert_var(w, name, v, mutable) ==
    IF Len(w.scopes) = 0 THEN w
    ELSE [w EXCEPT !.scopes[Len(w.scopes)] = ScopeInsert(@, name, <<v, mutable>>)]

insert_function(w, name, f) ==
    [w EXCEPT !.functions =
        [n \in DOMAIN @ \cup {name} |-> IF n = name THEN f ELSE @[n]]]

\* Arc::new(Mutex::new(vec)): a fresh backing sequence.
Alloc(w, vec) == [w EXCEPT !.heap = Append(@, vec)]
NewHandle(w) == Len(w.heap) + 1

\* Value::clone: an array's handle is copied, never its data ("copy the handle,
\* not the data"); every other value is copied by value.
Value_clone(w, v) == [w |-> w, v |-> v]

\* shallow_clone, were it to copy the array's data into a fresh array.
shallow_clone_deep(w, v) ==
    IF IsArray(v) THEN [w |-> Alloc(w, w.heap[v[2]]), v |-> Value_Array(NewHandle(w))]
    ELSE Value_clone(w, v)

\* Value::shallow_clone: Arc::clone for an array, Value::clone for the rest.
shallow_clone(w, v) ==
    IF IsArray(v) THEN [w |-> w, v |-> Value_Array(v[2])]
    ELSE Value_clone(w, v)

(***************************************************************************)
(* Display (what print writes).  Formatting an array holds its lock while  *)
(* its elements are formatted; locking a held Mutex again never returns.   *)
(***************************************************************************)
RECURSIVE Display(_, _, _)
RECURSIVE DisplayElems(_, _, _, _)

DisplayElems(heap, vec, i, held) ==
    IF i > Len(vec) THEN <<>>
    ELSE LET d == Display(heap, vec[i], held)
             rest == DisplayElems(heap, vec, i + 1, held)
         IN IF d = <<"Deadlock">> \/ rest = <<"Deadlock">> THEN <<"Deadlock">>
            ELSE (IF i > 1 THEN <<",">> ELSE <<>>) \o d \o rest

Display(heap, v, held) ==
    CASE v[1] = "Number" -> <<"n", v[2]>>
      [] v[1] = "String" -> <<"s", v[2]>>
      [] v[1] = "Boolean" -> <<"b", v[2]>>
      [] v[1] = "Float" -> <<"f", v[2], v[3]>>
      [] v[1] = "Null" -> <<"null">>
      [] v[1] = "Type" -> <<"t", v[2]>>
      [] v[1] = "Break" -> <<"break">>
      [] v[1] = "Continue" -> <<"continue">>
      [] v[1] = "Array" ->
            IF v[2] \in held THEN <<"Deadlock">>
            ELSE LET es == DisplayElems(heap, heap[v[2]], 1, held \cup {v[2]})
                 IN IF es = <<"Deadlock">> THEN es ELSE <<"[">> \o es \o <<"]">>
      [] v[1] = "Function" -> <<"function", v[2]>>
      [] v[1] = "ReturnValue" -> Display(heap, v[2], held)

println(w, v) ==
    LET d == Display(w.heap, v, {})
    IN IF d = <<"Deadlock">> THEN [w |-> w, r |-> <<"Deadlock">>]
       ELSE Ok([w EXCEPT !.out = Append(@, d)], Value_Null)

\* The text of {:?} for a value.  The Debug of a Mutex tries the lock: an array
\* whose lock the formatting in progress holds is written as <locked>.
RECURSIVE DebugValue(_, _, _)
RECURSIVE DebugElems(_, _, _, _)
DebugElems(heap, vec, i, held) ==
    IF i > Len(vec) THEN <<>>
    ELSE <<DebugValue(heap, vec[i], held)>> \o DebugElems(heap, vec, i + 1, held)

DebugValue(heap, v, held) ==
    IF v[1] = "Array"
    THEN (IF v[2] \in held THEN <<"<locked>">>
          ELSE <<"Array">> \o DebugElems(heap, heap[v[2]], 1, held \cup {v[2]}))
    ELSE IF v[1] = "ReturnValue" THEN <<"ReturnValue", DebugValue(heap, v[2], held)>>
    ELSE v

\* A trace line of verbose mode, written only when the flag is set.
debug(w, line) == IF w.is_verbose THEN [w EXCEPT !.out = Append(@, <<"debug">> \o line)] ELSE w

\* ASTNode::Print in verbose mode, were it to give back the value printed.
print_value_returning(w, v) ==
    LET d == Display(w.heap, v, {})
    IN IF d = <<"Deadlock">> THEN [w |-> w, r |-> <<"Deadlock">>]
       ELSE IF w.is_verbose
       THEN Ok([w EXCEPT !.out = Append(@, <<"call print(">> \o d \o <<")">>)], v)
       ELSE Ok([w EXCEPT !.out = Append(@, d)], Value_Null)

\* ASTNode::Print once the value is there: `call print(v)` in verbose mode.
print_value(w, v) ==
    LET d == Display(w.heap, v, {})
    IN IF d = <<"Deadlock">> THEN [w |-> w, r |-> <<"Deadlock">>]
       ELSE Ok([w EXCEPT !.out = Append(@, IF w.is_verbose
                                           THEN <<"call print(">> \o d \o <<")">>
                                           ELSE d)],
               Value_Null)

(***************************************************************************)
(* The standard library (src/src/libs/std.rs).                             *)
(***************************************************************************)
RECURSIVE type_str_of_value(_)
type_str_of_value(v) ==
    CASE v[1] = "Number" -> "int"
      [] v[1] = "String" -> "str"
      [] v[1] = "Boolean" -> "bool"
      [] v[1] = "Float" -> "float"
      [] v[1] = "Null" -> "null"
      [] v[1] = "Type" -> "type"
      [] v[1] = "Break" -> "break"
      [] v[1] = "Continue" -> "continue"
      [] v[1] = "Array" -> "array"
      [] v[1] = "Function" -> "function"
      [] v[1] = "ReturnValue" -> type_str_of_value(v[2])

\* Vec::insert(index, value).
VecInsert(vec, index, value) ==
    SubSeq(vec, 1, index) \o <<value>> \o SubSeq(vec, index + 1, Len(vec))

VecReverse(vec) == [i \in 1..Len(vec) |-> vec[Len(vec) + 1 - i]]

RECURSIVE InsertSorted(_, _)
InsertSorted(sorted, v) ==
    IF sorted = <<>> THEN <<v>>
    ELSE IF v[2] < sorted[1][2] THEN <<v>> \o sorted
    ELSE <<sorted[1]>> \o InsertSorted(Tail(sorted), v)

\* Vec::sort_by(partial_cmp): a stable ascending sort.  Only the order of
\* Numbers is modelled.
RECURSIVE VecSort(_)
VecSort(vec) ==
    IF vec = <<>> THEN <<>>
    ELSE InsertSorted(VecSort(SubSeq(vec, 1, Len(vec) - 1)), vec[Len(vec)])

AllNumbers(vec) == \A i \in 1..Len(vec) : IsNumber(vec[i])

\* insert(): the push/insert goes through the handle, into the caller's array.
std_insert(w, args) ==
    IF Len(args) < 2 \/ Len(args) > 3 THEN Err(w, "TypeError")
    ELSE IF ~IsArray(args[1]) THEN Err(w, "TypeError")
    ELSE LET h == args[1][2]
             vec == w.heap[h]
         IN IF Len(args) = 3
            THEN IF ~IsNumber(args[3]) THEN Err(w, "TypeError")
                 ELSE IF args[3][2] < 0 \/ args[3][2] > Len(vec)
                      THEN Err(w, "IndexOutOfBounds")
                 ELSE Ok([w EXCEPT !.heap[h] = VecInsert(vec, args[3][2], args[2])],
                         Value_Array(h))
            ELSE Ok([w EXCEPT !.heap[h] = Append(vec, args[2])], Value_Array(h))

\* sort(): a sorted copy in a fresh array.
std_sort(w, args) ==
    IF Len(args) # 1 THEN Err(w, "TypeError")
    ELSE IF ~IsArray(args[1]) THEN Err(w, "TypeError")
    ELSE IF ~AllNumbers(w.heap[args[1][2]]) THEN Unmodelled(w)
    ELSE Ok(Alloc(w, VecSort(w.heap[args[1][2]])), Value_Array(NewHandle(w)))

\* reverse(): a reversed copy in a fresh array.
std_reverse(w, args) ==
    IF Len(args) # 1 THEN Err(w, "TypeError")
    ELSE IF ~IsArray(args[1]) THEN Err(w, "TypeError")
    ELSE Ok(Alloc(w, VecReverse(w.heap[args[1][2]])), Value_Array(NewHandle(w)))

\* clear(): a fresh empty array.
std_clear(w, args) ==
    IF Len(args) # 1 THEN Err(w, "TypeError")
    ELSE IF ~IsArray(args[1]) THEN Err(w, "TypeError")
    ELSE Ok(Alloc(w, <<>>), Value_Array(NewHandle(w)))

\* copy(): a fresh array with the same elements.
std_copy(w, args) ==
    IF Len(args) # 1 THEN Err(w, "TypeError")
    ELSE IF ~IsArray(args[1]) THEN Err(w, "TypeError")
    ELSE Ok(Alloc(w, w.heap[args[1][2]]), Value_Array(NewHandle(w)))

std_len(w, args) ==
    IF Len(args) # 1 THEN Err(w, "TypeError")
    ELSE CASE args[1][1] = "String" -> Ok(w, Value_Number(Len(args[1][2])))
           [] args[1][1] = "Array" -> Ok(w, Value_Number(Len(w.heap[args[1][2]])))
           [] OTHER -> Err(w, "TypeError")

std_print(w, args) ==
    IF Len(args) # 1 THEN Err(w, "TypeError") ELSE println(w, args[1])

std_type(w, args) ==
    IF Len(args) # 1 THEN Err(w, "TypeError")
    ELSE Ok(w, Value_Type(type_str_of_value(args[1])))

\* The functions of the standard library this model evaluates.
StdLib_functions == {"print", "len", "type", "copy", "insert", "sort", "reverse", "clear"}

\* StdLib::get_function(name) applied to the evaluated arguments.
StdLib_call(w, name, args) ==
    CASE name = "insert" -> std_insert(w, args)
      [] name = "sort" -> std_sort(w, args)
      [] name = "reverse" -> std_reverse(w, args)
      [] name = "clear" -> std_clear(w, args)
      [] name = "copy" -> std_copy(w, args)
      [] name = "len" -> std_len(w, args)
      [] name = "print" -> std_print(w, args)
      [] name = "type" -> std_type(w, args)

(***************************************************************************)
(* i32 arithmetic.  An overflow aborts a debug build and wraps in a        *)
(* release build; the model reports it as the outcome <<"Overflow">>.      *)
(***************************************************************************)
I32Min == 0 - I32Max - 1

Abs(n) == IF n < 0 THEN 0 - n ELSE n

AddFits(l, r) ==
    IF r >= 0 THEN l <= I32Max - r ELSE l >= I32Min - r

SubFits(l, r) ==
    IF r >= 0 THEN l >= I32Min + r ELSE l <= I32Max + r

MulFits(l, r) ==
    IF l = 0 \/ r = 0 THEN TRUE
    ELSE IF l = I32Min THEN r = 1
    ELSE IF r = I32Min THEN l = 1
    ELSE IF (l > 0) = (r > 0) THEN Abs(l) <= I32Max \div Abs(r)
    ELSE \/ Abs(l) <= I32Max \div Abs(r)
         \/ (Abs(l) = (I32Max \div Abs(r)) + 1 /\ I32Max % Abs(r) = Abs(r) - 1)

\* Rust's integer division truncates toward zero (r # 0, and not i32::MIN / -1).
RECURSIVE TruncDiv(_, _)
TruncDiv(l, r) ==
    IF r = I32Min THEN (IF l = I32Min THEN 1 ELSE 0)
    ELSE IF l = I32Min
    THEN (IF r > 0 THEN TruncDiv(l + r, r) - 1 ELSE TruncDiv(l - r, r) + 1)
    ELSE IF (l >= 0) = (r > 0) THEN Abs(l) \div Abs(r) ELSE 0 - (Abs(l) \div Abs(r))

TruncRem(l, r) == l - r * TruncDiv(l, r)

(***************************************************************************)
(* f64 quotients of i32 operands, kept as the fraction in lowest terms     *)
(* with a positive denominator (the sign stays where negating it would     *)
(* leave the i32 range).                                                   *)
(***************************************************************************)
RECURSIVE GCD(_, _)
GCD(a, b) == IF b = 0 THEN a ELSE GCD(b, a % b)

RECURSIVE Halve(_, _)
Halve(n, d) ==
    IF n % 2 = 0 /\ d % 2 = 0 THEN Halve(n \div 2, d \div 2) ELSE <<n, d>>

\* l as f64 / r as f64
f64_div(l, r) ==
    IF r = 0 THEN Value_Float(IF l > 0 THEN 1 ELSE IF l < 0 THEN -1 ELSE 0, 0)
    ELSE LET h == Halve(l, r)
         IN IF h[1] = I32Min \/ h[2] = I32Min THEN Value_Float(h[1], h[2])
            ELSE LET g == GCD(Abs(h[1]), Abs(h[2]))
                     n == h[1] \div g
                     d == h[2] \div g
                 IN IF d < 0 THEN Value_Float(0 - n, 0 - d) ELSE Value_Float(n, d)

\* f as i32: truncation toward zero, saturating; NaN is 0.
f64_as_i32(n, d) ==
    IF d = 0 THEN (IF n > 0 THEN I32Max ELSE IF n < 0 THEN I32Min ELSE 0)
    ELSE IF n = I32Min /\ d = -1 THEN I32Max
    ELSE TruncDiv(n, d)

(***************************************************************************)
(* Strings of digits: i32::to_string, char::is_digit(10), str::parse.      *)
(***************************************************************************)
Digits == <<"0", "1", "2", "3", "4", "5", "6", "7", "8", "9">>

is_digit(c) == \E d \in 1..10 : Digits[d] = c

DigitValue(c) == (CHOOSE d \in 1..10 : Digits[d] = c) - 1

RECURSIVE NatToString(_)
NatToString(n) ==
    IF n < 10 THEN <<Digits[n + 1]>>
    ELSE Append(NatToString(n \div 10), Digits[(n % 10) + 1])

\* i32::to_string: a minus sign before the digits of a negative number.
to_string(n) ==
    IF n >= 0 THEN NatToString(n)
    ELSE IF n = I32Min THEN <<"-">> \o Append(NatToString(I32Max \div 10), "8")
    ELSE <<"-">> \o NatToString(0 - n)

\* The digits of a non-negative i32: <<TRUE, n>>, or <<FALSE, 0>> past i32::MAX.
RECURSIVE ParseDigits(_, _, _)
ParseDigits(s, i, acc) ==
    IF i > Len(s) THEN <<TRUE, acc>>
    ELSE LET d == DigitValue(s[i])
         IN IF acc > (I32Max - d) \div 10 THEN <<FALSE, 0>>
            ELSE ParseDigits(s, i + 1, acc * 10 + d)

I32MinDigits == <<"2", "1", "4", "7", "4", "8", "3", "6", "4", "8">>

\* str::parse::<i32>: an optional sign, then one or more decimal digits.
parse_i32(s) ==
    IF s = <<>> THEN <<FALSE, 0>>
    ELSE IF s[1] = "-" \/ s[1] = "+"
    THEN IF Len(s) = 1 \/ ~(\A i \in 2..Len(s) : is_digit(s[i])) THEN <<FALSE, 0>>
         ELSE IF s[1] = "-" /\ Tail(s) = I32MinDigits THEN <<TRUE, I32Min>>
         ELSE LET p == ParseDigits(Tail(s), 1, 0)
              IN IF s[1] = "-" THEN <<p[1], 0 - p[2]>> ELSE p
    ELSE IF ~(\A i \in 1..Len(s) : is_digit(s[i])) THEN <<FALSE, 0>>
    ELSE ParseDigits(s, 1, 0)

BoolString(b) == IF b THEN <<"t", "r", "u", "e">> ELSE <<"f", "a", "l", "s", "e">>

\* s.chars().all(|c| c.is_digit(10))
all_digits(s) == \A i \in 1..Len(s) : is_digit(s[i])

\* The casts of ASTNode::TypeCast.
TypeCast(w, type_name, value) ==
    CASE type_name = "int" ->
            (CASE value[1] = "Number" -> Ok(w, value)
               [] value[1] = "Float" -> Ok(w, Value_Number(f64_as_i32(value[2], value[3])))
               [] value[1] = "String" ->
                    IF all_digits(value[2])
                    THEN LET p == parse_i32(value[2])
                         IN IF p[1] THEN Ok(w, Value_Number(p[2]))
                            ELSE Panic(w, "unwrap")
                    ELSE Err(w, "TypeError")
               [] value[1] = "Boolean" -> Ok(w, Value_Number(IF value[2] THEN 1 ELSE 0))
               [] OTHER -> Err(w, "TypeError"))
      [] type_name = "str" ->
            (CASE value[1] = "Number" -> Ok(w, Value_String(to_string(value[2])))
               [] value[1] = "Float" -> Unmodelled(w)
               [] value[1] = "String" -> Ok(w, value)
               [] value[1] = "Boolean" -> Ok(w, Value_String(BoolString(value[2])))
               [] value[1] = "Null" -> Ok(w, Value_String(<<"n", "u", "l", "l">>))
               [] OTHER -> Err(w, "TypeError"))
      [] type_name = "float" ->
            (CASE value[1] = "Number" -> Ok(w, Value_Float(value[2], 1))
               [] value[1] = "Float" -> Ok(w, value)
               [] value[1] = "String" -> Unmodelled(w)
               [] value[1] = "Boolean" -> Ok(w, Value_Float(IF value[2] THEN 1 ELSE 0, 1))
               [] OTHER -> Err(w, "TypeError"))
      [] type_name = "bool" ->
            (CASE value[1] = "Number" -> Ok(w, Value_Boolean(value[2] # 0))
               [] value[1] = "Float" -> Ok(w, Value_Boolean(~(value[2] = 0 /\ value[3] # 0)))
               [] value[1] = "String" -> Ok(w, Value_Boolean(value[2] # <<>>))
               [] value[1] = "Boolean" -> Ok(w, value)
               [] value[1] = "Null" -> Ok(w, Value_Boolean(FALSE))
               [] OTHER -> Err(w, "TypeError"))
      [] OTHER -> Err(w, "TypeError")

(***************************************************************************)
(* Binary operators on evaluated operands (the match of ASTNode::BinaryOp  *)
(* after both sides are evaluated).  Arithmetic on Float operands is      *)
(* outside this model: it has the outcome <<"Unmodelled">>.                *)
(***************************************************************************)
RECURSIVE Repeat(_, _)
Repeat(s, n) == IF n <= 0 THEN <<>> ELSE s \o Repeat(s, n - 1)

NumberOp(w, op, l, r) ==
    CASE op = "Plus" -> IF AddFits(l, r) THEN Ok(w, Value_Number(l + r)) ELSE Overflow(w)
      [] op = "Minus" -> IF SubFits(l, r) THEN Ok(w, Value_Number(l - r)) ELSE Overflow(w)
      [] op = "Multiply" -> IF MulFits(l, r) THEN Ok(w, Value_Number(l * r)) ELSE Overflow(w)
      [] op = "Divide" -> Ok(w, f64_div(l, r))
      [] op = "Equal" -> Ok(w, Value_Boolean(l = r))
      [] op = "NotEqual" -> Ok(w, Value_Boolean(l # r))
      [] op = "Greater" -> Ok(w, Value_Boolean(l > r))
      [] op = "Less" -> Ok(w, Value_Boolean(l < r))
      [] op = "GreaterEqual" -> Ok(w, Value_Boolean(l >= r))
      [] op = "LessEqual" -> Ok(w, Value_Boolean(l <= r))
      [] op = "FloorDivide" ->
            IF r = 0 THEN Panic(w, "divide by zero")
            ELSE IF l = I32Min /\ r = -1 THEN Panic(w, "divide with overflow")
            ELSE Ok(w, Value_Number(TruncDiv(l, r)))
      [] op = "Modulus" ->
            IF r = 0 THEN Panic(w, "remainder by zero")
            ELSE IF l = I32Min /\ r = -1 THEN Panic(w, "remainder with overflow")
            ELSE Ok(w, Value_Number(TruncRem(l, r)))
      [] op = "Power" -> Unmodelled(w)
      [] OTHER -> Err(w, "UnsupportedOperation")

BinaryValues(w, op, lv, rv) ==
    CASE lv[1] = "Number" /\ rv[1] = "Number" -> NumberOp(w, op, lv[2], rv[2])
      [] lv[1] = "Float" \/ rv[1] = "Float" -> Unmodelled(w)
      [] lv[1] = "String" /\ rv[1] = "String" ->
            (CASE op = "Plus" -> Ok(w, Value_String(lv[2] \o rv[2]))
               [] op = "Equal" -> Ok(w, Value_Boolean(lv[2] = rv[2]))
               [] op = "NotEqual" -> Ok(w, Value_Boolean(lv[2] # rv[2]))
               [] op \in {"Greater", "Less", "GreaterEqual", "LessEqual"} -> Unmodelled(w)
               [] OTHER -> Err(w, "UnsupportedOperation"))
      [] lv[1] = "String" /\ rv[1] = "Number" ->
            IF op = "Multiply"
            THEN (IF rv[2] < 0 /\ lv[2] # <<>> THEN Panic(w, "capacity overflow")
                  ELSE Ok(w, Value_String(Repeat(lv[2], rv[2]))))
            ELSE Err(w, "UnsupportedOperation")
      [] lv[1] = "Number" /\ rv[1] = "String" ->
            IF op = "Multiply"
            THEN (IF lv[2] < 0 /\ rv[2] # <<>> THEN Panic(w, "capacity overflow")
                  ELSE Ok(w, Value_String(Repeat(rv[2], lv[2]))))
            ELSE Err(w, "UnsupportedOperation")
      [] lv[1] = "Boolean" /\ rv[1] = "Boolean" ->
            (CASE op = "Equal" -> Ok(w, Value_Boolean(lv[2] = rv[2]))
               [] op = "NotEqual" -> Ok(w, Value_Boolean(lv[2] # rv[2]))
               [] OTHER -> Err(w, "UnsupportedOperation"))
      [] lv[1] = "Type" /\ rv[1] = "Type" ->
            (CASE op = "Equal" -> Ok(w, Value_Boolean(lv[2] = rv[2]))
               [] op = "NotEqual" -> Ok(w, Value_Boolean(lv[2] # rv[2]))
               [] OTHER -> Err(w, "UnsupportedOperation"))
      [] OTHER -> Err(w, "UnsupportedOperation")

(***************************************************************************)
(* Helpers of the evaluator.                                               *)
(***************************************************************************)
\* get_array_name: <<TRUE, name>> for a plain identifier.
get_array_name(node) ==
    IF node[1] = "Identifier" THEN <<TRUE, node[2]>> ELSE <<FALSE, "">>

\* get_source_var_mutability: <<TRUE, mutable>> for a declared plain identifier.
get_source_var_mutability(expr, w) ==
    IF expr[1] = "Identifier" /\ Declared(w, expr[2])
    THEN <<TRUE, get(w, expr[2])[2]>>
    ELSE <<FALSE, FALSE>>

\* A check that lets every source through.
check_array_mutability_off(expr, w) == TRUE

\* check_array_mutability: TRUE when the check passes.
check_array_mutability(expr, w) ==
    LET m == get_source_var_mutability(expr, w)
    IN ~(m[1] /\ ~m[2])

\* ASTNode::Break and ASTNode::Continue, were they to ignore in_loop.
interpret_jump_anywhere(w, in_loop, kind) ==
    Ok(w, IF kind = "Break" THEN Value_Break ELSE Value_Continue)

\* ASTNode::Break and ASTNode::Continue.
interpret_jump(w, in_loop, kind) ==
    IF ~in_loop
    THEN Err(w, IF kind = "Break" THEN "BreakOutsideLoop" ELSE "ContinueOutsideLoop")
    ELSE Ok(debug(w, <<"executing", kind>>),
            IF kind = "Break" THEN Value_Break ELSE Value_Continue)

\* The write of ASTNode::IndexAssign, were it to skip the mutability flag.
index_assign_unchecked(w, array_name, index_value, value) ==
    IF ~IsNumber(index_value) THEN Err(w, "TypeError")
    ELSE IF ~Declared(w, array_name) \/ ~IsArray(get(w, array_name)[1])
    THEN Err(w, "TypeError")
    ELSE LET h == get(w, array_name)[1][2]
         IN IF index_value[2] < 0 \/ index_value[2] >= Len(w.heap[h])
            THEN Err(w, "IndexOutOfBounds")
            ELSE Ok([w EXCEPT !.heap[h][index_value[2] + 1] = value], Value_Null)

\* The write of ASTNode::IndexAssign once the index and the value are evaluated.
\* A negative index cast to usize is past every length.
index_assign(w, array_name, index_value, value) ==
    IF ~IsNumber(index_value) THEN Err(w, "TypeError")
    ELSE IF ~Declared(w, array_name) \/ ~IsArray(get(w, array_name)[1])
    THEN Err(w, "TypeError")
    ELSE IF ~get(w, array_name)[2] THEN Err(w, "TypeError")
    ELSE LET h == get(w, array_name)[1][2]
         IN IF index_value[2] < 0 \/ index_value[2] >= Len(w.heap[h])
            THEN Err(w, "IndexOutOfBounds")
            ELSE Ok([w EXCEPT !.heap[h][index_value[2] + 1] = value], Value_Null)

\* The read of ASTNode::Index once the operands are evaluated.
index_read(w, array, index) ==
    CASE array[1] = "Array" /\ index[1] = "Number" ->
            IF index[2] < 0 \/ index[2] >= Len(w.heap[array[2]])
            THEN Err(w, "IndexOutOfBounds")
            ELSE LET c == Value_clone(w, w.heap[array[2]][index[2] + 1])
                 IN Ok(c.w, c.v)
      [] array[1] = "String" /\ index[1] = "Number" ->
            IF index[2] < 0 \/ index[2] >= Len(array[2])
            THEN Err(w, "IndexOutOfBounds")
            ELSE Ok(w, Value_String(<<array[2][index[2] + 1]>>))
      [] OTHER -> Err(w, "TypeError")

\* The formal parameters bound, all mutable, in the callee's only scope; of two
\* parameters of one name the later wins.
bind_params(fe, params, args) ==
    [fe EXCEPT !.scopes[1] =
        [p \in {params[k] : k \in 1..Len(params)} |->
            <<args[CHOOSE k \in 1..Len(params) :
                      /\ params[k] = p
                      /\ \A j \in 1..Len(params) : params[j] = p => j <= k],
              TRUE>>]]

\* Back in the caller: its environment, with the heap and output the call left.
Returned(caller, callee) == [caller EXCEPT !.heap = callee.heap, !.out = callee.out]

\* The write-back of a bare insert/sort/reverse/clear call (FunctionCall, std
\* dispatch) after the library function returned fr.
std_write_back(fr, func_name, args) ==
    IF func_name \in {"insert", "sort", "reverse", "clear"}
       /\ get_array_name(args[1])[1]
       /\ Declared(fr.w, get_array_name(args[1])[2])
    THEN LET array_name == get_array_name(args[1])[2]
         IN IF get(fr.w, array_name)[2]
            THEN Ok(IF IsArray(fr.r[2]) THEN SetValue(fr.w, array_name, fr.r[2]) ELSE fr.w,
                    Value_Null)
            ELSE Err(fr.w, "TypeError")
    ELSE fr

(***************************************************************************)
(* interpret_node: one syntax-tree node evaluated against a world.         *)
(* fuel bounds the loop iterations and calls of one evaluation.            *)
(***************************************************************************)
\* An && or || that always goes on to its right operand.
short_circuits_never(op, left_val) == FALSE

\* Token::And with Boolean(false) on the left, Token::Or with Boolean(true):
\* the left value is returned before the right operand is looked at.
short_circuits(op, left_val) ==
    \/ op = "And" /\ left_val = Value_Boolean(FALSE)
    \/ op = "Or" /\ left_val = Value_Boolean(TRUE)

\* `Node evaluation result: {:?}`, after a node that evaluated to Ok.
trace_result(m) ==
    IF ~IsOk(m) THEN m
    ELSE IF IsEarly(m) THEN Ok(m.w, m.r[2])
    ELSE Ok(debug(m.w, <<"Node evaluation result", DebugValue(m.w.heap, m.r[2], {})>>),
            m.r[2])

RECURSIVE interpret_node(_, _, _, _)
RECURSIVE match_node(_, _, _, _)
RECURSIVE EvalCallArgs(_, _, _, _, _, _)
RECURSIVE EvalArgs(_, _, _, _, _, _)
RECURSIVE ExecFunctionBody(_, _, _, _, _, _)
RECURSIVE ExecBranch(_, _, _, _, _)
RECURSIVE ExecElifs(_, _, _, _, _, _)
RECURSIVE ExecLoopBody(_, _, _, _, _)
RECURSIVE ExecWhile(_, _, _, _, _)
RECURSIVE ExecFor(_, _, _, _, _, _)
RECURSIVE ExternalLibrary_initialize(_, _, _, _)
RECURSIVE clone_libraries(_, _, _, _, _)
RECURSIVE import_library(_, _, _, _)
RECURSIVE import_no_mode(_, _, _)
RECURSIVE call_function(_, _, _, _, _)

(***************************************************************************)
(* Libraries: the import of a module, the initialization of an external    *)
(* module and the per-call clone of the library table.                     *)
(***************************************************************************)
\* The sibling files <name>.tdx of the running script, parsed:
\*   util.tdx   var ARR = [1, 2];  novar K = 7;
\*              function twice(x) { return x + x; }
\*   math.tdx   novar PI = 3;
\*   io.tdx     novar BUFFER = 8;
\*   bad.tdx    novar A = 1;  novar B = A;
tdx_files ==
    [n \in {"util", "math", "io", "bad"} |->
        CASE n = "util" ->
                <<Node_Var("ARR", Node_Array(<<Node_Number(1), Node_Number(2)>>), TRUE),
                  Node_Var("K", Node_Number(7), FALSE),
                  Node_FunctionDecl("twice", <<"x">>,
                      <<Node_Return(Node_BinaryOp(Node_Identifier("x"), "Plus",
                                                  Node_Identifier("x")))>>)>>
          [] n = "math" -> <<Node_Var("PI", Node_Number(3), FALSE)>>
          [] n = "io" -> <<Node_Var("BUFFER", Node_Number(8), FALSE)>>
          [] n = "bad" ->
                <<Node_Var("A", Node_Number(1), FALSE),
                  Node_Var("B", Node_Identifier("A"), FALSE)>>]

\* The built-in modules import_library's "embedded" arm knows.
EmbeddedNames == {"math", "sys", "os"}

Embedded_new(name) ==
    CASE name = "math" -> MathLib_new
      [] name = "sys" -> SysLib_new
      [] name = "os" -> OSLib_new

IsExternal(lib) == lib[1] = "ExternalLibrary"

has_library_never(w, name) == FALSE

has_library(w, name) ==
    \/ name \in DOMAIN w.libraries
    \/ (w.parent.present /\ name \in w.parent.libraries)

\* ExternalLibrary::initialize from the i-th node on, env being its scratch
\* Environment: a function declaration is registered; a variable's initializer
\* is evaluated and the variable is kept only `if let Ok(value)`.
ExternalLibrary_initialize(lib, i, env, fuel) ==
    IF i > Len(lib[2]) THEN Ok(env, lib)
    ELSE LET node == lib[2][i]
         IN CASE node[1] = "FunctionDecl" ->
                    ExternalLibrary_initialize(
                        <<lib[1], lib[2],
                          ScopeInsert(lib[3], node[2], <<node[3], node[4]>>), lib[4]>>,
                        i + 1, env, fuel)
              [] node[1] = "Var" /\ node[3] # Node_NoExpr ->
                    LET v == interpret_node(node[3], env, FALSE, fuel)
                    IN IF IsOk(v)
                       THEN ExternalLibrary_initialize(
                                <<lib[1], lib[2], lib[3],
                                  ScopeInsert(lib[4], node[2], <<v.r[2], node[4]>>)>>,
                                i + 1, v.w, fuel)
                       ELSE IF v.r[1] = "Err"
                       THEN ExternalLibrary_initialize(lib, i + 1, v.w, fuel)
                       ELSE v
              [] node[1] = "Var" /\ node[3] = Node_NoExpr ->
                    ExternalLibrary_initialize(
                        <<lib[1], lib[2], lib[3],
                          ScopeInsert(lib[4], node[2], <<Value_Null, node[4]>>)>>,
                        i + 1, env, fuel)
              [] OTHER -> ExternalLibrary_initialize(lib, i + 1, env, fuel)

\* A clone that keeps the variables' values, arrays by handle, and does not
\* initialize again.
box_clone_shared(lib, w, fuel) == Ok(w, lib)

\* Library::box_clone.  An external module's clone takes a copy of the
\* variables, then initializes again, which evaluates every initializer anew.
box_clone(lib, w, fuel) ==
    IF IsExternal(lib)
    THEN LET init == ExternalLibrary_initialize(
                         <<lib[1], lib[2], [n \in {} |-> <<>>], lib[4]>>, 1,
                         Environment_new(w.heap, w.out), fuel)
         IN [w |-> [w EXCEPT !.heap = init.w.heap, !.out = init.w.out], r |-> init.r]
    ELSE Ok(w, lib)

\* `for (name, lib) in &env.libraries`: the clones of the libraries named in
\* todo, added to acc.
clone_libraries(libs, todo, w, fuel, acc) ==
    IF todo = {} THEN Ok(w, acc)
    ELSE LET name == CHOOSE n \in todo : TRUE
             c == box_clone(libs[name], w, fuel)
         IN IF ~IsOk(c) THEN c
            ELSE clone_libraries(libs, todo \ {name}, c.w, fuel,
                                 ScopeInsert(acc, name, c.r[2]))

\* The environment a user function's body runs in: Environment::new() with
\* in_function set, the caller's function table kept only in parent, and a clone
\* of each of the caller's libraries.  w of the outcome is that environment.
func_env(w, fuel) ==
    LET libs == clone_libraries(w.libraries, DOMAIN w.libraries, w, fuel,
                                [l \in {} |-> StdLib_new])
    IN IF ~IsOk(libs) THEN libs
       ELSE Ok([Environment_new(libs.w.heap, libs.w.out) EXCEPT
                    !.in_function = TRUE,
                    !.is_verbose = w.is_verbose,
                    !.parent = [present |-> TRUE, functions |-> w.functions,
                                libraries |-> {}],
                    !.libraries = libs.r[2]],
               Value_Null)

load_external_library(w, name, fuel) ==
    IF name \notin DOMAIN tdx_files THEN Err(w, "FileNotFound")
    ELSE LET init == ExternalLibrary_initialize(ExternalLibrary_new(tdx_files[name]), 1,
                                                Environment_new(w.heap, w.out), fuel)
             back == [w EXCEPT !.heap = init.w.heap, !.out = init.w.out]
         IN IF ~IsOk(init) THEN [w |-> back, r |-> init.r]
            ELSE Ok([back EXCEPT !.libraries = ScopeInsert(@, name, init.r[2])],
                    Value_Null)

\* The sibling file first, the built-in module only when that fails.
import_no_mode_external_first(w, name, fuel) ==
    LET x == import_library(w, name, SomeMode("external"), fuel)
    IN IF IsOk(x) THEN x
       ELSE import_library(w, name, SomeMode("embedded"), fuel)

\* import_library's arm for no mode: the built-in module first, the sibling
\* file only when that fails.
import_no_mode(w, name, fuel) ==
    LET e == import_library(w, name, SomeMode("embedded"), fuel)
    IN IF IsOk(e) THEN e
       ELSE import_library(w, name, SomeMode("external"), fuel)

import_library(w, name, mode, fuel) ==
    IF name = "std" THEN Err(w, "InterpreterError")
    ELSE IF has_library(w, name) THEN Err(w, "InterpreterError")
    ELSE CASE mode = SomeMode("embedded") ->
                IF name \in DOMAIN w.libraries THEN Ok(w, Value_Null)
                ELSE IF name \in EmbeddedNames
                THEN Ok([w EXCEPT !.libraries = ScopeInsert(@, name, Embedded_new(name))],
                        Value_Null)
                ELSE Err(w, "InterpreterError")
           [] mode = SomeMode("external") ->
                IF name \in DOMAIN w.libraries THEN Ok(w, Value_Null)
                ELSE load_external_library(w, name, fuel)
           [] mode = NoMode -> import_no_mode(w, name, fuel)
           [] OTHER -> Err(w, "InterpreterError")

\* The user function name of w called with the evaluated arguments args.
call_function(w, name, args, in_loop, fuel) ==
    LET params == w.functions[name][3]
        body == w.functions[name][4]
    IN Once(func_env(w, fuel), LAMBDA fe :
           IF ~IsOk(fe) THEN [w |-> Returned(w, fe.w), r |-> fe.r]
           ELSE IF Len(params) # Len(args)
           THEN Err(Returned(w, fe.w), "InvalidFunctionArguments")
           ELSE IF fuel = 0 THEN Diverge(w)
           ELSE LET b == ExecFunctionBody(body, 1, bind_params(fe.w, params, args),
                                          in_loop, fuel - 1, Value_Null)
                IN Once(b, LAMBDA bv :
                       IF IsEarly(bv) THEN early([w |-> Returned(w, bv.w), r |-> bv.r])
                       ELSE [w |-> Returned(w, bv.w), r |-> bv.r]))

\* A function of an external module called: a new Environment with only the
\* parameters, and no loop around the body.
ExternalLibrary_call(w, f, args, fuel) ==
    LET fe == [Environment_new(w.heap, w.out) EXCEPT !.in_function = TRUE]
    IN IF Len(args) # Len(f[1]) THEN Err(w, "InvalidFunctionArguments")
       ELSE IF fuel = 0 THEN Diverge(w)
       ELSE LET b == ExecFunctionBody(f[2], 1, bind_params(fe, f[1], args), FALSE,
                                      fuel - 1, Value_Null)
            IN [w |-> Returned(w, b.w), r |-> b.r]

\* The arguments (or array elements), evaluated left to right.
EvalArgs(args, i, w, in_loop, fuel, acc) ==
    IF i > Len(args) THEN Ok(w, acc)
    ELSE LET a == interpret_node(args[i], w, in_loop, fuel)
         IN IF ~IsOk(a) THEN a
            ELSE EvalArgs(args, i + 1, a.w, in_loop, fuel, Append(acc, a.r[2]))

\* The arguments of a FunctionCall, each traced in verbose mode.
EvalCallArgs(args, i, w, in_loop, fuel, acc) ==
    IF i > Len(args) THEN Ok(w, acc)
    ELSE Once(interpret_node(args[i], w, in_loop, fuel), LAMBDA a :
             IF ~IsOk(a) THEN a
             ELSE EvalCallArgs(args, i + 1,
                               debug(a.w, <<"Argument", i - 1,
                                            DebugValue(a.w.heap, a.r[2], {})>>),
                               in_loop, fuel, Append(acc, a.r[2])))

\* The statement loop of a user function's body: a ReturnValue ends the call.
ExecFunctionBody(body, i, w, in_loop, fuel, res) ==
    IF i > Len(body) THEN Ok(w, res)
    ELSE LET s == interpret_node(body[i], w, in_loop, fuel)
         IN IF ~IsOk(s) THEN s
            ELSE IF s.r[2][1] = "ReturnValue" THEN early(Ok(s.w, s.r[2][2]))
            ELSE ExecFunctionBody(body, i + 1, s.w, in_loop, fuel, s.r[2])

\* A block that runs to its end whatever its statements evaluate to.
ExecBranch_swallowing(block, i, w, in_loop, fuel) ==
    IF i > Len(block) THEN Ok(w, Value_Null)
    ELSE LET s == interpret_node(block[i], w, in_loop, fuel)
         IN IF ~IsOk(s) THEN s
            ELSE ExecBranch(block, i + 1, s.w, in_loop, fuel)

\* The statement loop of an if, elif or else block: only Break and Continue
\* leave it early; every other value, a ReturnValue included, is dropped.
ExecBranch(block, i, w, in_loop, fuel) ==
    IF i > Len(block) THEN Ok(w, Value_Null)
    ELSE LET s == interpret_node(block[i], w, in_loop, fuel)
         IN IF ~IsOk(s) THEN s
            ELSE IF s.r[2] = Value_Break \/ s.r[2] = Value_Continue THEN early(s)
            ELSE ExecBranch(block, i + 1, s.w, in_loop, fuel)

\* The elif chain, then the else block.
ExecElifs(elifs, i, w, in_loop, fuel, else_block) ==
    IF i > Len(elifs)
    THEN IF else_block[1] THEN ExecBranch(else_block[2], 1, w, in_loop, fuel)
         ELSE Ok(w, Value_Null)
    ELSE LET c == interpret_node(elifs[i][1], w, in_loop, fuel)
         IN IF ~IsOk(c) THEN c
            ELSE IF c.r[2] = Value_Boolean(TRUE)
            THEN ExecBranch(elifs[i][2], 1, c.w, in_loop, fuel)
            ELSE ExecElifs(elifs, i + 1, c.w, in_loop, fuel, else_block)

\* The statement loop of a while or for body: Break and Continue end the
\* iteration; any other value becomes the loop's result so far.
ExecLoopBody(body, i, w, fuel, res) ==
    IF i > Len(body) THEN Ok(w, <<"Done", res>>)
    ELSE LET s == interpret_node(body[i], w, TRUE, fuel)
         IN IF ~IsOk(s) THEN s
            ELSE IF s.r[2] = Value_Break \/ s.r[2] = Value_Continue
            THEN Ok(s.w, <<s.r[2][1], res>>)
            ELSE ExecLoopBody(body, i + 1, s.w, fuel, s.r[2])

\* The 'outer loop of ASTNode::While, after push_scope.
ExecWhile(condition, body, w, fuel, res) ==
    IF fuel = 0 THEN Diverge(w)
    ELSE LET c == interpret_node(condition, w, TRUE, fuel - 1)
         IN IF ~IsOk(c) THEN c
            ELSE IF c.r[2] = Value_Boolean(FALSE)
            THEN Ok(debug(pop_scope(c.w), <<"Exiting while loop">>), res)
            ELSE LET b == ExecLoopBody(body, 1, c.w, fuel - 1, res)
                 IN IF ~IsOk(b) THEN b
                    ELSE IF b.r[2][1] = "Break"
                    THEN Ok(debug(pop_scope(b.w), <<"Exiting while loop">>), b.r[2][2])
                    ELSE ExecWhile(condition, body, b.w, fuel - 1, b.r[2][2])

\* The 'outer loop of ASTNode::For, after push_scope and the initializer:
\* `continue 'outer` goes back to the condition, past the update.
ExecFor(condition, update, body, w, fuel, res) ==
    IF fuel = 0 THEN Diverge(w)
    ELSE LET c == interpret_node(condition, w, TRUE, fuel - 1)
         IN IF ~IsOk(c) THEN c
            ELSE IF c.r[2] = Value_Boolean(FALSE) THEN Ok(pop_scope(c.w), res)
            ELSE LET b == ExecLoopBody(body, 1, c.w, fuel - 1, res)
                 IN IF ~IsOk(b) THEN b
                    ELSE IF b.r[2][1] = "Break" THEN Ok(pop_scope(b.w), b.r[2][2])
                    ELSE IF b.r[2][1] = "Continue"
                    THEN ExecFor(condition, update, body, b.w, fuel - 1, b.r[2][2])
                    ELSE LET u == interpret_node(update, b.w, TRUE, fuel - 1)
                         IN IF ~IsOk(u) THEN u
                            ELSE ExecFor(condition, update, body, u.w, fuel - 1, b.r[2][2])

\* interpret_node: the match over the node, between the trace of the node and
\* the trace of an Ok result, both written in verbose mode only.
interpret_node(node, w, in_loop, fuel) ==
    Once(match_node(node, debug(w, <<"Interpreting node", node>>), in_loop, fuel),
         trace_result)

match_node(node, w, in_loop, fuel) ==
    CASE node[1] = "Number" -> Ok(w, Value_Number(node[2]))
      [] node[1] = "String" -> Ok(w, Value_String(node[2]))
      [] node[1] = "Boolean" -> Ok(w, Value_Boolean(node[2]))
      [] node[1] = "Null" -> Ok(w, Value_Null)
      [] node[1] = "Import" ->
            LET i == import_library(debug(w, <<"Importing library", node[2], node[3]>>),
                                    node[2], node[3], fuel)
            IN IF ~IsOk(i) THEN i ELSE Ok(i.w, Value_Null)
      [] node[1] = "LibraryAccess" ->
            IF node[2] \notin DOMAIN w.libraries THEN Err(w, "InterpreterError")
            ELSE LET lib == w.libraries[node[2]]
                 IN IF lib = StdLib_new
                    THEN (IF node[3] \in StdLib_functions
                          THEN Ok(w, Value_Function(<<node[2], node[3]>>, <<>>, <<>>))
                          ELSE Err(w, "InterpreterError"))
                    ELSE IF ~IsExternal(lib) THEN Unmodelled(w)
                    ELSE IF node[3] \in DOMAIN lib[4]
                    THEN LET c == Value_clone(w, lib[4][node[3]][1]) IN Ok(c.w, c.v)
                    ELSE IF node[3] \in DOMAIN lib[3]
                    THEN Ok(w, Value_Function(<<node[2], node[3]>>, <<>>, <<>>))
                    ELSE Err(w, "InterpreterError")
      [] node[1] = "LibraryFunctionCall" ->
            LET a == EvalArgs(node[4], 1, w, in_loop, fuel, <<>>)
            IN IF ~IsOk(a) THEN a
               ELSE IF node[2] \notin DOMAIN a.w.libraries THEN Err(a.w, "InterpreterError")
               ELSE LET lib == a.w.libraries[node[2]]
                    IN IF lib = StdLib_new
                       THEN (IF node[3] \notin StdLib_functions
                             THEN Err(a.w, "InterpreterError")
                             ELSE StdLib_call(a.w, node[3], a.r[2]))
                       ELSE IF ~IsExternal(lib) THEN Unmodelled(a.w)
                       ELSE IF node[3] \notin DOMAIN lib[3]
                       THEN Err(a.w, "InterpreterError")
                       ELSE ExternalLibrary_call(a.w, lib[3][node[3]], a.r[2], fuel)
      [] node[1] = "LenCall" ->
            LET v == interpret_node(node[2], w, in_loop, fuel)
            IN IF ~IsOk(v) THEN v
               ELSE CASE v.r[2][1] = "String" -> Ok(v.w, Value_Number(Len(v.r[2][2])))
                      [] v.r[2][1] = "Array" -> Ok(v.w, Value_Number(Len(v.w.heap[v.r[2][2]])))
                      [] OTHER -> Err(v.w, "CannotGetLength")
      [] node[1] = "DelCall" ->
            IF node[2][1] = "Identifier"
            THEN Ok(IF Len(w.scopes) = 0 THEN debug(w, <<"delete variable", node[2][2]>>)
                    ELSE [debug(w, <<"delete variable", node[2][2]>>)
                             EXCEPT !.scopes[Len(w.scopes)] = ScopeRemove(@, node[2][2])],
                    Value_Null)
            ELSE Err(w, "DelRequiresVariableName")
      [] node[1] = "FunctionDecl" ->
            Ok(insert_function(debug(w, <<"Declaring function", node[2], node[3]>>),
                               node[2],
                               Value_Function(<<"", node[2]>>, node[3], node[4])),
               Value_Null)
      [] node[1] = "BinaryOp" ->
            LET l == interpret_node(node[2], w, in_loop, fuel)
            IN IF ~IsOk(l) THEN l
               ELSE IF short_circuits(node[3], l.r[2]) THEN early(l)
               ELSE LET r == interpret_node(node[4], l.w, in_loop, fuel)
                    IN IF ~IsOk(r) THEN r
                       ELSE IF node[3] \in {"And", "Or"}
                       THEN (IF l.r[2][1] = "Boolean" /\ r.r[2][1] = "Boolean"
                             THEN Ok(r.w, Value_Boolean(IF node[3] = "And"
                                                        THEN l.r[2][2] /\ r.r[2][2]
                                                        ELSE l.r[2][2] \/ r.r[2][2]))
                             ELSE Err(r.w, "TypeError"))
                       ELSE IF l.r[2][1] = "String" /\ r.r[2][1] = "String"
                               /\ node[3] = "Multiply"
                       THEN LET again == interpret_node(node[4], r.w, in_loop, fuel)
                            IN IF ~IsOk(again) THEN again
                               ELSE IF IsNumber(again.r[2])
                               THEN BinaryValues(again.w, "Multiply", l.r[2], again.r[2])
                               ELSE Err(again.w, "TypeError")
                       ELSE BinaryValues(r.w, node[3], l.r[2], r.r[2])
      [] node[1] = "Array" ->
            LET a == EvalArgs(node[2], 1, w, in_loop, fuel, <<>>)
            IN IF ~IsOk(a) THEN a
               ELSE Ok(Alloc(a.w, a.r[2]), Value_Array(NewHandle(a.w)))
      [] node[1] = "Index" ->
            LET a == interpret_node(node[2], w, in_loop, fuel)
            IN IF ~IsOk(a) THEN a
               ELSE LET i == interpret_node(node[3], a.w, in_loop, fuel)
                    IN IF ~IsOk(i) THEN i
                       ELSE index_read(i.w, a.r[2], i.r[2])
      [] node[1] = "FunctionCall" ->
            LET a == EvalCallArgs(node[3], 1,
                                  debug(w, <<"Calling function", node[2], Len(node[3])>>),
                                  in_loop, fuel, <<>>)
                name == node[2]
            IN IF ~IsOk(a) THEN a
               ELSE IF name \in DOMAIN a.w.functions
                       /\ a.w.functions[name][2][1] = "std"
                       /\ "std" \in DOMAIN a.w.libraries
                       /\ a.w.functions[name][2][2] \in StdLib_functions
               THEN LET func_name == a.w.functions[name][2][2]
                        fr == StdLib_call(a.w, func_name, a.r[2])
                    IN IF ~IsOk(fr) THEN fr
                       ELSE Once(std_write_back(fr, func_name, node[3]), early)
               ELSE IF name \notin DOMAIN a.w.functions THEN Err(a.w, "InterpreterError")
               ELSE Once(a, LAMBDA av :
                            call_function(av.w, name, av.r[2], in_loop, fuel))
      [] node[1] = "Return" ->
            IF ~w.in_function THEN Err(w, "ReturnOutsideFunction")
            ELSE IF node[2] = Node_NoExpr THEN Ok(w, Value_ReturnValue(Value_Null))
            ELSE LET v == interpret_node(node[2], w, in_loop, fuel)
                 IN IF ~IsOk(v) THEN v ELSE Ok(v.w, Value_ReturnValue(v.r[2]))
      [] node[1] = "Print" ->
            LET v == interpret_node(node[2], w, in_loop, fuel)
            IN IF ~IsOk(v) THEN v ELSE print_value(v.w, v.r[2])
      [] node[1] = "UnaryOp" ->
            LET v == interpret_node(node[3], w, in_loop, fuel)
            IN IF ~IsOk(v) THEN v
               ELSE IF node[2] = "Not" /\ v.r[2][1] = "Boolean"
               THEN Ok(v.w, Value_Boolean(~v.r[2][2]))
               ELSE Err(v.w, "UnsupportedOperation")
      [] node[1] = "While" ->
            ExecWhile(node[2], node[3],
                      push_scope(debug(w, <<"Entering while loop">>)), fuel, Value_Null)
      [] node[1] = "Var" ->
            LET d == debug(w, <<"Variable declaration", node[2], node[4]>>)
            IN IF node[3] = Node_NoExpr
               THEN Ok(insert_var(d, node[2], Value_Null, node[4]), Value_Null)
               ELSE LET v == interpret_node(node[3], d, in_loop, fuel)
                        t == IF node[4]
                             THEN debug(v.w, <<"Variable initialized", node[2],
                                               DebugValue(v.w.heap, v.r[2], {})>>)
                             ELSE v.w
                    IN IF ~IsOk(v) THEN v
                       ELSE IF node[4] /\ IsArray(v.r[2])
                               /\ ~check_array_mutability(node[3], t)
                       THEN Err(t, "TypeError")
                       ELSE LET c == shallow_clone(t, v.r[2])
                            IN Ok(insert_var(c.w, node[2], c.v, node[4]), Value_Null)
      [] node[1] = "Assign" ->
            IF ~Declared(w, node[2]) THEN Err(w, "VariableNotDeclared")
            ELSE IF ~get(w, node[2])[2] THEN Err(w, "TypeError")
            ELSE LET v == interpret_node(node[3], w, in_loop, fuel)
                 IN IF ~IsOk(v) THEN v
                    ELSE IF IsArray(v.r[2]) /\ ~check_array_mutability(node[3], v.w)
                    THEN Err(v.w, "TypeError")
                    ELSE IF ~Declared(v.w, node[2]) THEN Ok(v.w, Value_Null)
                    ELSE LET c == shallow_clone(v.w, v.r[2])
                         IN Ok(SetValue(c.w, node[2], c.v), Value_Null)
      [] node[1] = "IndexAssign" ->
            IF node[2][1] # "Identifier" THEN Err(w, "TypeError")
            ELSE LET i == interpret_node(node[3], w, in_loop, fuel)
                 IN IF ~IsOk(i) THEN i
                    ELSE LET v == interpret_node(node[4], i.w, in_loop, fuel)
                         IN IF ~IsOk(v) THEN v
                            ELSE index_assign(v.w, node[2][2], i.r[2], v.r[2])
      [] node[1] = "Identifier" ->
            IF Declared(w, node[2])
            THEN LET c == Value_clone(w, get(w, node[2])[1]) IN Ok(c.w, c.v)
            ELSE Err(w, "VariableNotDeclared")
      [] node[1] = "TypeLiteral" -> Ok(w, Value_Type(node[2]))
      [] node[1] = "Type" ->
            LET v == interpret_node(node[2], w, in_loop, fuel)
            IN IF ~IsOk(v) THEN v
               ELSE Ok(debug(v.w, <<"call type", DebugValue(v.w.heap, v.r[2], {}),
                                    type_str_of_value(v.r[2])>>),
                       Value_Type(type_str_of_value(v.r[2])))
      [] node[1] = "TypeCast" ->
            LET v == interpret_node(node[3], w, in_loop, fuel)
            IN IF ~IsOk(v) THEN v ELSE TypeCast(v.w, node[2], v.r[2])
      [] node[1] = "If" ->
            LET c == interpret_node(node[2],
                                    debug(w, <<"Evaluating if statement", Len(node[4]),
                                               node[5]>>),
                                    in_loop, fuel)
            IN IF ~IsOk(c) THEN c
               ELSE IF c.r[2] = Value_Boolean(TRUE)
               THEN ExecBranch(node[3], 1, c.w, in_loop, fuel)
               ELSE ExecElifs(node[4], 1, c.w, in_loop, fuel, <<node[5], node[6]>>)
      [] node[1] = "For" ->
            LET i == interpret_node(node[2], push_scope(w), TRUE, fuel)
            IN IF ~IsOk(i) THEN i
               ELSE ExecFor(node[3], node[4], node[5], i.w, fuel, Value_Null)
      [] node[1] = "Break" -> interpret_jump(w, in_loop, "Break")
      [] node[1] = "Continue" -> interpret_jump(w, in_loop, "Continue")

(***************************************************************************)
(* The script driver (interpret): the statements of the script run one by  *)
(* one against the global Environment; the first failure ends the run.     *)
(* last, pre and result record the statement just run, the world before it *)
(* and its outcome.  alias records a `var b = a` of a mutable array a that *)
(* has been followed only by index-assignments through a or b.             *)
(***************************************************************************)
NoAlias == [on |-> FALSE, a |-> "", b |-> ""]

IsAliasDecl(node, w, res) ==
    /\ node[1] = "Var"
    /\ node[4]
    /\ node[3][1] = "Identifier"
    /\ Declared(w, node[3][2])
    /\ IsArray(get(w, node[3][2])[1])
    /\ get(w, node[3][2])[2]
    /\ IsOk(res)

AliasAfter(node, w, res) ==
    IF IsAliasDecl(node, w, res) THEN [on |-> TRUE, a |-> node[3][2], b |-> node[2]]
    ELSE IF alias.on /\ node[1] = "IndexAssign" /\ node[2][1] = "Identifier"
            /\ node[2][2] \in {alias.a, alias.b}
    THEN alias
    ELSE NoAlias

Init ==
    /\ world = Environment_new(<<>>, <<>>)
    /\ status = "running"
    /\ result = <<"Ok", Value_Null>>
    /\ last = Node_Null
    /\ pre = Environment_new(<<>>, <<>>)
    /\ steps = 0
    /\ alias = NoAlias

\* One iteration of interpret's loop over the script's statements.
Exec(node) ==
    /\ status = "running"
    /\ steps < MaxSteps
    /\ LET res == interpret_node(node, world, FALSE, Fuel)
       IN /\ world' = res.w
          /\ result' = res.r
          /\ status' = IF IsOk(res) THEN "running" ELSE "stopped"
          /\ alias' = AliasAfter(node, world, res)
    /\ last' = node
    /\ pre' = world
    /\ steps' = steps + 1

\* The parser rejects a declaration of a name its scope already holds.
CanDeclare(name) == name \notin DOMAIN world.scopes[Len(world.scopes)]

ArrayLiteral == Node_Array(<<Node_Number(2), Node_Number(1)>>)

IndexExprs == {Node_Literal(i) : i \in -1..2} \cup {Node_Null}

ValueExprs == {Node_Number(7), Node_Identifier("a")}

\* var a = [2, 1];   novar m = [2, 1];
DeclareArray ==
    \E d \in {<<"a", TRUE>>, <<"m", FALSE>>} :
        /\ CanDeclare(d[1])
        /\ Exec(Node_Var(d[1], ArrayLiteral, d[2]))

\* var b = a;   var b = m;   novar c = a;
DeclareFromIdentifier ==
    \E d \in {<<"b", "a", TRUE>>, <<"b", "m", TRUE>>, <<"c", "a", FALSE>>} :
        /\ CanDeclare(d[1])
        /\ Exec(Node_Var(d[1], Node_Identifier(d[2]), d[3]))

\* x[i] = v;
IndexAssign ==
    \E x \in {"a", "b", "c", "m"}, i \in IndexExprs, v \in ValueExprs :
        /\ Declared(world, x)
        /\ Exec(Node_IndexAssign(Node_Identifier(x), i, v))

Next == DeclareArray \/ DeclareFromIdentifier \/ IndexAssign

Spec == Init /\ [][Next]_vars

(***************************************************************************)
(* Reading back: what an expression evaluates to in a world.               *)
(***************************************************************************)
Read(w, expr) == interpret_node(expr, w, FALSE, Fuel).r

ReadIndex(w, name, index_expr) == Read(w, Node_Index(Node_Identifier(name), index_expr))

LastOk == result[1] = "Ok"

LastIs(kind) == steps > 0 /\ last[1] = kind

\* The statement just run was x[i] = v on a binding x that held an array, with
\* i and v expressions that have a value.
LastIndexAssignOnArray ==
    /\ LastIs("IndexAssign")
    /\ Declared(pre, last[2][2])
    /\ IsArray(get(pre, last[2][2])[1])
    /\ Read(pre, last[3])[1] = "Ok"
    /\ Read(pre, last[4])[1] = "Ok"

(***************************************************************************)
(* C1.  Alias invariant: after `var b = a;` of a mutable array a, followed *)
(* by any index-assignments through a or b, the two names are bound to one *)
(* backing sequence: each index reads the same through both, and after a   *)
(* successful `b[i] = v;` (or `a[i] = v;`) reading a[i] and b[i] yields v. *)
(***************************************************************************)
C1_AliasInvariant ==
    alias.on =>
        /\ Declared(world, alias.a) /\ Declared(world, alias.b)
        /\ get(world, alias.a)[1] = get(world, alias.b)[1]
        /\ \A i \in IndexExprs :
              ReadIndex(world, alias.a, i) = ReadIndex(world, alias.b, i)
        /\ (LastIs("IndexAssign") /\ LastOk) =>
              /\ ReadIndex(world, alias.a, last[3]) = Read(pre, last[4])
              /\ ReadIndex(world, alias.b, last[3]) = Read(pre, last[4])

\* Reached: var b = a; b[i] = 7; then a further index-assignment through a.
C1_Witness ==
    /\ alias.on
    /\ steps = 4
    /\ LastIs("IndexAssign") /\ LastOk
    /\ last[2][2] = alias.a
    /\ pre.heap # world.heap
    /\ \E i \in IndexExprs : ReadIndex(pre, alias.a, i) = <<"Ok", Value_Number(7)>>

InRange(w, name, index_expr) ==
    LET i == Read(w, index_expr)
    IN /\ i[1] = "Ok" /\ IsNumber(i[2])
       /\ 0 <= i[2][2] /\ i[2][2] < Len(w.heap[get(w, name)[1][2]])

(***************************************************************************)
(* C6.  x[i] = v on an immutable array binding x fails with TypeError for  *)
(* every i and v and changes nothing; on a mutable array binding with      *)
(* 0 <= i < len(x) it succeeds and x[i] then reads v.                      *)
(***************************************************************************)
C6_IndexAssignMutability ==
    LastIndexAssignOnArray =>
        /\ ~get(pre, last[2][2])[2] =>
              /\ result = <<"Err", "TypeError">>
              /\ world = pre
        /\ (get(pre, last[2][2])[2] /\ InRange(pre, last[2][2], last[3])) =>
              /\ LastOk
              /\ ReadIndex(world, last[2][2], last[3]) = Read(pre, last[4])

\* Reached: m[i] = v with m an immutable array and i in range.
C6_Witness ==
    /\ LastIndexAssignOnArray
    /\ ~get(pre, last[2][2])[2]
    /\ InRange(pre, last[2][2], last[3])

\* Reached: a[i] = v with a a mutable array, i in range, and a[i] changed.
C6_Witness_Mutable ==
    /\ LastIndexAssignOnArray
    /\ get(pre, last[2][2])[2]
    /\ InRange(pre, last[2][2], last[3])
    /\ ReadIndex(world, last[2][2], last[3]) # ReadIndex(pre, last[2][2], last[3])

(***************************************************************************)
(* Scripts with user functions and with break, continue and return.        *)
(***************************************************************************)
Node_IfOnly(c, block) == Node_If(c, block, <<>>, FALSE, <<>>)

Id(name) == Node_Identifier(name)

\* func f(n) { if (n <= 1) { return 1; } return n * f(n - 1); }
Factorial ==
    Node_FunctionDecl("f", <<"n">>,
        <<Node_IfOnly(Node_BinaryOp(Id("n"), "LessEqual", Node_Number(1)),
                      <<Node_Return(Node_Number(1))>>),
          Node_Return(Node_BinaryOp(Id("n"), "Multiply",
              Node_FunctionCall("f", <<Node_BinaryOp(Id("n"), "Minus", Node_Number(1))>>)))>>)

\* func g(n) { if (n <= 1) { return 1; } elif (n <= 2) { return 2; } else { return 3; }
\*             print(9); return 4; }
ReturnInBranch ==
    Node_FunctionDecl("g", <<"n">>,
        <<Node_If(Node_BinaryOp(Id("n"), "LessEqual", Node_Number(1)),
                  <<Node_Return(Node_Number(1))>>,
                  <<<<Node_BinaryOp(Id("n"), "LessEqual", Node_Number(2)),
                      <<Node_Return(Node_Number(2))>>>>>>,
                  TRUE, <<Node_Return(Node_Number(3))>>),
          Node_Print(Node_Number(9)),
          Node_Return(Node_Number(4))>>)

\* func h(n) { var i = 0; while (i < 1) { return n; i = i + 1; } return 6; }
ReturnInWhile ==
    Node_FunctionDecl("h", <<"n">>,
        <<Node_Var("i", Node_Number(0), TRUE),
          Node_While(Node_BinaryOp(Id("i"), "Less", Node_Number(1)),
                     <<Node_Return(Id("n")),
                       Node_Assign("i", Node_BinaryOp(Id("i"), "Plus", Node_Number(1)))>>),
          Node_Return(Node_Number(6))>>)

\* func k(n) { return n; print(9); return 6; }
ReturnInBody ==
    Node_FunctionDecl("k", <<"n">>,
        <<Node_Return(Id("n")), Node_Print(Node_Number(9)), Node_Return(Node_Number(6))>>)

\* func p(n) { return k(n); }
CallsAnother ==
    Node_FunctionDecl("p", <<"n">>, <<Node_Return(Node_FunctionCall("k", <<Id("n")>>))>>)

\* func j(n) { break; }
BreakInBody == Node_FunctionDecl("j", <<"n">>, <<Node_Break>>)

FunctionDecls ==
    {Factorial, ReturnInBranch, ReturnInWhile, ReturnInBody, CallsAnother, BreakInBody}

CallArgs == {1, 2, 3, 5}

\* func name(params) { body }
DeclareFunction ==
    \E d \in FunctionDecls :
        /\ d[2] \notin DOMAIN world.functions
        /\ Exec(d)

\* name(arg);
CallFunction ==
    \E name \in {d[2] : d \in FunctionDecls}, arg \in CallArgs :
        /\ name \in DOMAIN world.functions
        /\ Exec(Node_FunctionCall(name, <<Node_Number(arg)>>))

Jumps == {Node_Break, Node_Continue, Node_Return(Node_NoExpr), Node_Return(Node_Number(1))}

True == Node_Boolean(TRUE)
False == Node_Boolean(FALSE)

\* A statement at top level, bare or nested in if/elif/else branches that are taken.
Nested(stmt) ==
    {stmt,
     Node_IfOnly(True, <<stmt>>),
     Node_If(False, <<>>, <<<<True, <<stmt>>>>>>, FALSE, <<>>),
     Node_If(False, <<>>, <<<<False, <<>>>>>>, TRUE, <<stmt>>),
     Node_IfOnly(True, <<Node_If(False, <<>>, <<>>, TRUE, <<stmt>>)>>)}

\* The jump statement a member of Nested(jump) holds.
RECURSIVE JumpOf(_)
JumpOf(stmt) ==
    IF stmt[1] # "If" THEN stmt
    ELSE IF stmt[3] # <<>> THEN JumpOf(stmt[3][1])
    ELSE IF stmt[4] # <<>> /\ stmt[4][1][2] # <<>> THEN JumpOf(stmt[4][1][2][1])
    ELSE JumpOf(stmt[6][1])

TopLevelJumps == UNION {Nested(j) : j \in Jumps}

\* break; continue; return; at top level, outside every loop and function.
TopLevelJump == \E stmt \in TopLevelJumps : /\ steps >= 0 /\ Exec(stmt)

\* while (true) { return; }  at top level: a return in a loop, outside a function.
ReturnInTopLevelLoop ==
    \E j \in {Node_Return(Node_NoExpr), Node_Return(Node_Number(1))} :
        /\ steps >= 0
        /\ Exec(Node_While(True, <<j>>))

NextFunc == DeclareFunction \/ CallFunction \/ TopLevelJump \/ ReturnInTopLevelLoop

SpecFunc == Init /\ [][NextFunc]_vars

\* The statement just run was a call name(n) of a declared user function.
LastCall(name) ==
    /\ LastIs("FunctionCall")
    /\ last[2] = name
    /\ name \in DOMAIN pre.functions

LastArg == last[3][1][2]

FirstReturn(name, n) ==
    CASE name = "k" -> n
      [] name = "h" -> n
      [] name = "g" -> IF n <= 1 THEN 1 ELSE IF n <= 2 THEN 2 ELSE 3

(***************************************************************************)
(* C2.  A return that executes in a user function's body, be it inside an  *)
(* if/elif/else branch or a loop body, ends the call: no later statement   *)
(* of the body runs (nothing more is printed) and the call evaluates to    *)
(* the returned value.  k returns at body level, g in a branch, h in a     *)
(* while body.                                                             *)
(***************************************************************************)
C2_ReturnEndsCall ==
    \A name \in {"k", "g", "h"} :
        LastCall(name) =>
            /\ result = <<"Ok", Value_Number(FirstReturn(name, LastArg))>>
            /\ world.out = pre.out

(***************************************************************************)
(* C3.  A call made inside a user function's body to a user function of    *)
(* the caller's function table resolves to it: p(n), whose body returns    *)
(* k(n), evaluates to n whenever p and k are both declared, in either      *)
(* order, and the self-call of f resolves.                                 *)
(***************************************************************************)
C3_CalleeResolves ==
    /\ (LastCall("p") /\ "k" \in DOMAIN pre.functions) =>
            result = <<"Ok", Value_Number(LastArg)>>
    /\ LastCall("f") => result # <<"Err", "InterpreterError">>

RECURSIVE Fact(_)
Fact(n) == IF n <= 1 THEN 1 ELSE n * Fact(n - 1)

(***************************************************************************)
(* C4.  With the factorial function f declared at top level, f(5) is 120,  *)
(* and f(n) is n! for every n >= 1 of the model.                           *)
(***************************************************************************)
C4_Factorial == LastCall("f") => result = <<"Ok", Value_Number(Fact(LastArg))>>

JumpError(jump) ==
    CASE jump[1] = "Break" -> "BreakOutsideLoop"
      [] jump[1] = "Continue" -> "ContinueOutsideLoop"
      [] jump[1] = "Return" -> "ReturnOutsideFunction"

(***************************************************************************)
(* C9.  break and continue evaluated with no loop around them fail with    *)
(* BreakOutsideLoop and ContinueOutsideLoop, and return outside a function *)
(* body fails with ReturnOutsideFunction: at top level, nested in          *)
(* if/elif/else branches at top level, for a return in a top-level loop,   *)
(* and for a break in the body of a function called from top level.        *)
(***************************************************************************)
C9_JumpOutsideLoop ==
    /\ (steps > 0 /\ last \in TopLevelJumps) =>
            /\ result = <<"Err", JumpError(JumpOf(last))>>
            /\ world = pre
    /\ LastIs("While") => result = <<"Err", "ReturnOutsideFunction">>
    /\ LastCall("j") => result = <<"Err", "BreakOutsideLoop">>

\* Reached: a break in the else branch of an if nested in an if, at top level.
C9_Witness ==
    /\ LastIs("If")
    /\ last[3] # <<>> /\ last[3][1][1] = "If"
    /\ JumpOf(last) = Node_Break
    /\ result = <<"Err", "BreakOutsideLoop">>

(***************************************************************************)
(* Scripts that call insert, sort, reverse and clear, in the bare form     *)
(* fn(x, ...) and in the library-prefixed form std.fn(x, ...).             *)
(***************************************************************************)
MutatingNames == {"insert", "sort", "reverse", "clear"}

\* The first argument: a mutable variable, an immutable variable, an index
\* expression and a function-call result.
FirstArgs ==
    {Id("a"), Id("m"), Node_Index(Id("nest"), Node_Number(0)),
     Node_FunctionCall("copy", <<Id("a")>>)}

\* The arguments after the first.
RestArgs(fn) ==
    IF fn = "insert" THEN {<<Node_Number(7)>>, <<Node_Number(7), Node_Number(0)>>}
    ELSE {<<>>}

\* novar nest = [a];
DeclareNested ==
    /\ CanDeclare("nest")
    /\ Declared(world, "a")
    /\ Exec(Node_Var("nest", Node_Array(<<Id("a")>>), FALSE))

\* fn(x, ...);
BareCall ==
    \E fn \in MutatingNames, x \in FirstArgs :
        \E rest \in RestArgs(fn) :
            /\ Read(world, x)[1] = "Ok"
            /\ Exec(Node_FunctionCall(fn, <<x>> \o rest))

\* std.fn(x, ...);
PrefixedCall ==
    \E fn \in MutatingNames, x \in FirstArgs :
        \E rest \in RestArgs(fn) :
            /\ Read(world, x)[1] = "Ok"
            /\ Exec(Node_LibraryFunctionCall("std", fn, <<x>> \o rest))

NextStd == DeclareArray \/ DeclareNested \/ BareCall \/ PrefixedCall

SpecStd == Init /\ [][NextStd]_vars

\* The statement just run was fn(x, ...) or std.fn(x, ...), fn one of the four.
LastMutatingCall ==
    \/ LastIs("FunctionCall") /\ last[2] \in MutatingNames
    \/ LastIs("LibraryFunctionCall") /\ last[3] \in MutatingNames

LastFn == IF last[1] = "FunctionCall" THEN last[2] ELSE last[3]
LastArgs == IF last[1] = "FunctionCall" THEN last[3] ELSE last[4]

\* Its first argument is a plain identifier bound to an array, mutable or not.
LastFirstArgIsVariable(mutable) ==
    /\ LastMutatingCall
    /\ LastArgs[1][1] = "Identifier"
    /\ Declared(pre, LastArgs[1][2])
    /\ IsArray(get(pre, LastArgs[1][2])[1])
    /\ get(pre, LastArgs[1][2])[2] = mutable

\* The contents of the array an expression evaluates to.
Contents(w, expr) ==
    LET e == interpret_node(expr, w, FALSE, Fuel) IN e.w.heap[e.r[2][2]]

\* What the operation makes of a sequence.
Operated(fn, vec, args) ==
    CASE fn = "sort" -> VecSort(vec)
      [] fn = "reverse" -> VecReverse(vec)
      [] fn = "clear" -> <<>>
      [] fn = "insert" ->
            IF Len(args) = 3 THEN VecInsert(vec, args[3][2], Value_Number(args[2][2]))
            ELSE Append(vec, Value_Number(args[2][2]))

(***************************************************************************)
(* C5.  insert, sort, reverse and clear called with an immutable array     *)
(* binding as the plain-identifier first argument fail with TypeError, in  *)
(* the bare form and in the library-prefixed form.                         *)
(***************************************************************************)
C5_ImmutableCallFails ==
    LastFirstArgIsVariable(FALSE) => result = <<"Err", "TypeError">>

(***************************************************************************)
(* C7.  After insert, sort, reverse or clear is called with a mutable      *)
(* array variable a as the plain-identifier first argument, in the bare or *)
(* the library-prefixed form, a holds the operation's result.              *)
(***************************************************************************)
C7_MutableCallWritesBack ==
    LastFirstArgIsVariable(TRUE) =>
        /\ LastOk
        /\ Contents(world, LastArgs[1]) = Operated(LastFn, Contents(pre, LastArgs[1]), LastArgs)

LastFirstArgIsNotMutableVariable ==
    /\ LastMutatingCall
    /\ ~LastFirstArgIsVariable(TRUE)
    /\ Read(pre, LastArgs[1])[1] = "Ok"
    /\ IsArray(Read(pre, LastArgs[1])[2])

\* The handles (of arrays that existed before the call) whose contents changed.
ChangedArrays == {h \in 1..Len(pre.heap) : world.heap[h] # pre.heap[h]}

(***************************************************************************)
(* C8.  A call of insert, sort, reverse or clear whose first argument is   *)
(* not a bare mutable-array variable (an index expression, a function-call *)
(* result, an immutable variable) is pure: no variable binding changes and *)
(* the contents of every array that existed before the call are unchanged. *)
(***************************************************************************)
C8_CallIsPure ==
    LastFirstArgIsNotMutableVariable =>
        /\ world.scopes = pre.scopes
        /\ ChangedArrays = {}

(***************************************************************************)
(* Scripts that cast: r = int(str(x)); and r = int(s);                     *)
(***************************************************************************)
CastInts == (0 - MaxInt)..MaxInt \cup {I32Max, 0 - I32Max}

CastStrings ==
    {<<"1", "2", "a">>, <<"4", "2">>, <<"0", "0", "7">>, <<"a">>, <<"-", "5">>,
     <<"1", "2", " ">>}

IntOfStr(e) == Node_TypeCast("int", Node_TypeCast("str", e))

\* var r;
DeclareResult ==
    /\ CanDeclare("r")
    /\ Exec(Node_Var("r", Node_NoExpr, TRUE))

\* r = int(str(x));
CastRoundTrip ==
    \E x \in CastInts :
        /\ Declared(world, "r")
        /\ Exec(Node_Assign("r", IntOfStr(Node_Literal(x))))

\* r = int(s);
CastString ==
    \E str \in CastStrings :
        /\ Declared(world, "r")
        /\ Exec(Node_Assign("r", Node_TypeCast("int", Node_String(str))))

NextCast == DeclareResult \/ CastRoundTrip \/ CastString

SpecCast == Init /\ [][NextCast]_vars

\* The value of a literal as the parser reads it: n, or 0 - n.
LiteralValue(e) == IF e[1] = "Number" THEN e[2] ELSE 0 - e[4][2]

HasNonDigit(str) == \E i \in 1..Len(str) : ~is_digit(str[i])

(***************************************************************************)
(* C10.  int(str(x)) is Number x for every Number x of the i32 range, zero *)
(* and negative x included, and int(s) fails with TypeError for a string s *)
(* that holds a non-digit character.                                       *)
(***************************************************************************)
C10_IntStrRoundTrip ==
    (LastIs("Assign") /\ last[3][1] = "TypeCast") =>
        /\ last[3][3][1] = "TypeCast" =>
              /\ LastOk
              /\ get(world, "r")[1] = Value_Number(LiteralValue(last[3][3][3]))
        /\ (last[3][3][1] = "String" /\ HasNonDigit(last[3][3][2])) =>
              result = <<"Err", "TypeError">>

(***************************************************************************)
(* Scripts that divide and cast: r = x // y;  r = x / y;  r = x % y;       *)
(* r = int(s);                                                             *)
(***************************************************************************)
NumOperands == {I32Min, -1, 0, 2, 4, I32Max}

\* The expression a script writes for the number n.
NumExpr(n) ==
    IF n = I32Min
    THEN Node_BinaryOp(Node_Negative(I32Max), "Minus", Node_Number(1))
    ELSE Node_Literal(n)

DivisionOps == {"FloorDivide", "Divide", "Modulus"}

IntCastStrings ==
    {<<>>, <<"7">>, <<"1", "2", "a">>,
     <<"2", "1", "4", "7", "4", "8", "3", "6", "4", "7">>,
     <<"2", "1", "4", "7", "4", "8", "3", "6", "4", "8">>,
     <<"9", "9", "9", "9", "9", "9", "9", "9", "9", "9", "9">>}

\* r = x op y;
Divide ==
    \E x \in NumOperands, y \in NumOperands, op \in DivisionOps :
        /\ Declared(world, "r")
        /\ Exec(Node_Assign("r", Node_BinaryOp(NumExpr(x), op, NumExpr(y))))

\* r = int(s);
CastDigits ==
    \E str \in IntCastStrings :
        /\ Declared(world, "r")
        /\ Exec(Node_Assign("r", Node_TypeCast("int", Node_String(str))))

NextNum == DeclareResult \/ Divide \/ CastDigits

SpecNum == Init /\ [][NextNum]_vars

\* The statement just run was r = x op y with op one of //, / and %.
LastDivision ==
    /\ LastIs("Assign")
    /\ last[3][1] = "BinaryOp"
    /\ last[3][3] \in DivisionOps

LastLeft == Read(pre, last[3][2])[2][2]
LastRight == Read(pre, last[3][4])[2][2]

(***************************************************************************)
(* C11.  For all Number operands x and y with y # 0, over the whole i32    *)
(* range, x // y evaluates to a Number and x / y evaluates to a Float,     *)
(* also when y divides x exactly.                                          *)
(***************************************************************************)
C11_DivisionTypes ==
    (LastDivision /\ LastRight # 0) =>
        /\ last[3][3] = "FloorDivide" => (LastOk /\ get(world, "r")[1][1] = "Number")
        /\ last[3][3] = "Divide" => (LastOk /\ get(world, "r")[1][1] = "Float")

(***************************************************************************)
(* C12.  No evaluation aborts the process: x // 0 and x % 0 on Numbers,    *)
(* and int(s) for every string s (the empty string and digit strings       *)
(* outside the i32 range included), end in a value or in an error.         *)
(***************************************************************************)
C12_NoAbort ==
    steps > 0 =>
        /\ result[1] \in {"Ok", "Err"}
        /\ (LastDivision /\ last[3][3] # "Divide" /\ LastRight = 0) => result[1] = "Err"

(***************************************************************************)
(* Imports: a script of import statements, by name and mode.               *)
(***************************************************************************)
ImportNames == {"std", "math", "sys", "io", "util", "bad", "nofile"}

ImportModes == {NoMode, SomeMode("embedded"), SomeMode("external"), SomeMode("builtin")}

\* import name;   import name, "mode";
Import ==
    \E name \in ImportNames, mode \in ImportModes :
        /\ name \in ImportNames
        /\ Exec(Node_Import(name, mode))

\* print(lib.item);
PrintItem ==
    \E lib \in ImportNames, item \in {"ARR", "K", "B", "twice", "print"} :
        /\ lib \in DOMAIN world.libraries
        /\ Exec(Node_Print(Node_LibraryAccess(lib, item)))

NextImport == Import \/ PrintItem

SpecImport == Init /\ [][NextImport]_vars

LastImport == steps > 0 /\ last[1] = "Import"

\* The import just run names a library that was not there before it.
LastImportFresh ==
    LastImport /\ last[2] # "std" /\ last[2] \notin DOMAIN pre.libraries

(***************************************************************************)
(* C13  An import of `std`, or of a name the library table already holds,  *)
(* fails with InterpreterError whatever the mode (none, "embedded",        *)
(* "external"), and leaves the library table as it was.                    *)
(***************************************************************************)
C13_ReimportRejected ==
    (LastImport /\ (last[2] = "std" \/ last[2] \in DOMAIN pre.libraries)) =>
        /\ result = <<"Err", "InterpreterError">>
        /\ world.libraries = pre.libraries

C13_Witness ==
    /\ LastImport
    /\ last[2] = "util"
    /\ last[3] = SomeMode("external")
    /\ "util" \in DOMAIN pre.libraries
    /\ result = <<"Err", "InterpreterError">>

LastImportExternal ==
    /\ LastImportFresh
    /\ last[2] \in DOMAIN tdx_files
    /\ \/ last[3] = SomeMode("external")
       \/ last[3] = NoMode /\ last[2] \notin EmbeddedNames

\* The errors of the initializers of module name's top-level variables, each
\* evaluated as initialize does, against a new Environment.
InitializerErrors(w, name) ==
    LET ast == tdx_files[name]
        vars_with_init == {i \in 1..Len(ast) : ast[i][1] = "Var" /\ ast[i][3] # Node_NoExpr}
        results == {interpret_node(ast[i][3], Environment_new(w.heap, w.out),
                                   FALSE, Fuel).r : i \in vars_with_init}
    IN {r \in results : r[1] = "Err"}

(***************************************************************************)
(* C20  No error is recovered locally: when the initializer of a top-level *)
(* variable of an external module fails while the module is initialized at *)
(* import, the import fails with that error and the module is not          *)
(* registered.                                                             *)
(***************************************************************************)
C20_InitializerErrorFailsImport ==
    (LastImportExternal /\ InitializerErrors(pre, last[2]) # {}) =>
        /\ result \in InitializerErrors(pre, last[2])
        /\ last[2] \notin DOMAIN world.libraries

(***************************************************************************)
(* Library state across calls: a script that imports util, reads and       *)
(* writes its array constant ARR at top level and inside a user function.  *)
(***************************************************************************)
PokeIndexes == {0, 1}

PokeValues == {5, 9}

\* function poke() { var t = util.ARR; t[i] = v; return t[i]; }
Poke(i, v) ==
    Node_FunctionDecl("poke", <<>>,
        <<Node_Var("t", Node_LibraryAccess("util", "ARR"), TRUE),
          Node_IndexAssign(Node_Identifier("t"), Node_Number(i), Node_Number(v)),
          Node_Return(Node_Index(Node_Identifier("t"), Node_Number(i)))>>)

\* import util;
ImportUtil ==
    /\ "util" \notin DOMAIN world.libraries
    /\ Exec(Node_Import("util", NoMode))

DeclarePoke ==
    \E i \in PokeIndexes, v \in PokeValues :
        /\ i \in PokeIndexes
        /\ Exec(Poke(i, v))

\* poke();
CallPoke ==
    /\ "poke" \in DOMAIN world.functions
    /\ Exec(Node_FunctionCall("poke", <<>>))

\* var t = util.ARR;
DeclareFromItem ==
    /\ CanDeclare("t")
    /\ Exec(Node_Var("t", Node_LibraryAccess("util", "ARR"), TRUE))

\* t[i] = v;
AssignThroughItem ==
    \E i \in PokeIndexes, v \in PokeValues :
        /\ Declared(world, "t")
        /\ Exec(Node_IndexAssign(Node_Identifier("t"), Node_Number(i), Node_Number(v)))

NextLibCall == ImportUtil \/ DeclarePoke \/ CallPoke \/ DeclareFromItem \/ AssignThroughItem

SpecLibCall == Init /\ [][NextLibCall]_vars

\* The elements of the array constant lib.item of w's library table.
ItemContents(w, lib, item) == w.heap[w.libraries[lib][4][item][1][2]]

LastPoke == LastCall("poke") /\ "util" \in DOMAIN pre.libraries

(***************************************************************************)
(* C19  Library state is independent per call: what a user function's body *)
(* writes into the array constant ARR of the imported external module util *)
(* (`var t = util.ARR; t[i] = v;`) is not seen through the caller's        *)
(* library table after the call; the caller's util.ARR holds what it held  *)
(* before the call.                                                        *)
(***************************************************************************)
C19_LibraryStatePerCall ==
    LastPoke =>
        /\ world.libraries = pre.libraries
        /\ ItemContents(world, "util", "ARR") = ItemContents(pre, "util", "ARR")

\* The body wrote 9 into its ARR[0] and read it back; the caller's is not 9.
C19_Witness ==
    /\ LastPoke
    /\ result = <<"Ok", Value_Number(9)>>
    /\ "poke" \in DOMAIN pre.functions
    /\ pre.functions["poke"][4] = Poke(0, 9)[4]
    /\ ItemContents(world, "util", "ARR")[1] # Value_Number(9)

(***************************************************************************)
(* Caller variables: functions whose bodies name a variable of the caller, *)
(* called from a script that declares g and a.                             *)
(***************************************************************************)
\* func rd(p) { return g; }
ReadsCaller == Node_FunctionDecl("rd", <<"p">>, <<Node_Return(Id("g"))>>)

\* func wr(p) { g = 5; return 0; }
AssignsCaller ==
    Node_FunctionDecl("wr", <<"p">>,
        <<Node_Assign("g", Node_Number(5)), Node_Return(Node_Number(0))>>)

\* func ix(p) { a[0] = 7; return 0; }
IndexAssignsCaller ==
    Node_FunctionDecl("ix", <<"p">>,
        <<Node_IndexAssign(Id("a"), Node_Number(0), Node_Number(7)),
          Node_Return(Node_Number(0))>>)

\* func own(g) { g = 9; var l = g; return l; }
OwnNames ==
    Node_FunctionDecl("own", <<"g">>,
        <<Node_Assign("g", Node_Number(9)), Node_Var("l", Id("g"), TRUE),
          Node_Return(Id("l"))>>)

\* func arg(x) { x[0] = 7; return 0; }
WritesArgument ==
    Node_FunctionDecl("arg", <<"x">>,
        <<Node_IndexAssign(Id("x"), Node_Number(0), Node_Number(7)),
          Node_Return(Node_Number(0))>>)

ScopeDecls == {ReadsCaller, AssignsCaller, IndexAssignsCaller, OwnNames, WritesArgument}

ScopeArgs == {Node_Number(1), Id("g"), Id("a")}

\* var g = 1;
DeclareGlobal ==
    /\ CanDeclare("g")
    /\ Exec(Node_Var("g", Node_Number(1), TRUE))

DeclareScopeFunction ==
    \E d \in ScopeDecls :
        /\ d[2] \notin DOMAIN world.functions
        /\ Exec(d)

\* name(arg);
CallScopeFunction ==
    \E name \in {d[2] : d \in ScopeDecls}, arg \in ScopeArgs :
        /\ name \in DOMAIN world.functions
        /\ Exec(Node_FunctionCall(name, <<arg>>))

NextScope == DeclareGlobal \/ DeclareArray \/ DeclareScopeFunction \/ CallScopeFunction

SpecScope == Init /\ [][NextScope]_vars

\* The arrays the arguments of the call just run are bound to.
LastArgHandles ==
    {get(pre, last[3][k][2])[1][2] :
        k \in {k \in 1..Len(last[3]) : /\ last[3][k][1] = "Identifier"
                                       /\ Declared(pre, last[3][k][2])
                                       /\ IsArray(get(pre, last[3][k][2])[1])}}

\* The call just run reaches a statement that names a variable its caller
\* holds.
LastNamesCallerVariable ==
    /\ steps > 0
    /\ Read(pre, last[3][1])[1] = "Ok"
    /\ \/ LastCall("rd") /\ Declared(pre, "g")
       \/ LastCall("wr") /\ Declared(pre, "g")
       \/ LastCall("ix") /\ Declared(pre, "a")

LastScopeCall ==
    /\ LastIs("FunctionCall")
    /\ last[2] \in {d[2] : d \in ScopeDecls}
    /\ last[2] \in DOMAIN pre.functions

(***************************************************************************)
(* C15  The body of a user function cannot read or assign a variable of    *)
(* its caller: a statement of the body that names one fails with           *)
(* VariableNotDeclared; and after the call the caller's bindings, function *)
(* table and library table are what they were, and so are the contents of  *)
(* every array that was not passed as an argument.                         *)
(***************************************************************************)
C15_CallerVariablesUnreachable ==
    LastScopeCall =>
        /\ world.scopes = pre.scopes
        /\ world.functions = pre.functions
        /\ world.libraries = pre.libraries
        /\ \A h \in 1..Len(pre.heap) :
                h \notin LastArgHandles => world.heap[h] = pre.heap[h]
        /\ LastNamesCallerVariable => result = <<"Err", "VariableNotDeclared">>

(***************************************************************************)
(* Jumps through conditionals: loops over a counter whose body holds a     *)
(* break or a continue inside nested if/elif/else branches.                *)
(***************************************************************************)
\* The loops below count up to here; one evaluation has fuel for that.
LoopBound == Fuel - 1

JumpAt == {1, 2}

Marker == Node_Print(Node_String(<<"x">>))

\* The statements jump; print("x"); inside branches that are taken when cond
\* holds, each followed by a print("x") of its own:
\*   if (cond) { J }
\*   if (cond) { if (true) { J } print("x"); }
\*   if (false) { } elif (cond) { if (false) { } else { J } print("x"); }
\*   if (cond) { if (true) { if (true) { J } print("x"); } print("x"); }
JumpShapes(cond, jump) ==
    LET J == <<jump, Marker>>
    IN {Node_IfOnly(cond, J),
        Node_IfOnly(cond, <<Node_IfOnly(True, J), Marker>>),
        Node_If(False, <<>>,
                <<<<cond, <<Node_If(False, <<>>, <<>>, TRUE, J), Marker>>>>>>,
                FALSE, <<>>),
        Node_IfOnly(cond, <<Node_IfOnly(True, <<Node_IfOnly(True, J), Marker>>),
                            Marker>>)}

\* while (i < LoopBound) { i = i + 1; <shape>; print(i); }
WhileLoop(shape) ==
    Node_While(Node_BinaryOp(Id("i"), "Less", Node_Number(LoopBound)),
               <<Node_Assign("i", Node_BinaryOp(Id("i"), "Plus", Node_Number(1))),
                 shape,
                 Node_Print(Id("i"))>>)

\* for (var j = 0; j < LoopBound; j = j + 1) { <shape>; print(j); }
ForLoop(shape) ==
    Node_For(Node_Var("j", Node_Number(0), TRUE),
             Node_BinaryOp(Id("j"), "Less", Node_Number(LoopBound)),
             Node_Assign("j", Node_BinaryOp(Id("j"), "Plus", Node_Number(1))),
             <<shape, Node_Print(Id("j"))>>)

\* var i = 0;
DeclareCounter ==
    /\ CanDeclare("i")
    /\ Exec(Node_Var("i", Node_Number(0), TRUE))

RunWhile ==
    \E at \in JumpAt, jump \in {Node_Break, Node_Continue} :
        \E shape \in JumpShapes(Node_BinaryOp(Id("i"), "Equal", Node_Number(at)), jump) :
            /\ Declared(world, "i")
            /\ Exec(WhileLoop(shape))

RunFor ==
    \E at \in JumpAt :
        \E shape \in JumpShapes(Node_BinaryOp(Id("j"), "Equal", Node_Number(at)),
                                Node_Break) :
            /\ at \in JumpAt
            /\ Exec(ForLoop(shape))

NextLoop == DeclareCounter \/ RunWhile \/ RunFor

SpecLoop == Init /\ [][NextLoop]_vars

\* The condition counter == at a member of JumpShapes holds.
JumpCondition(shape) == IF shape[4] # <<>> THEN shape[4][1][1] ELSE shape[2]

LastWhile == LastIs("While") /\ last = WhileLoop(last[3][2])

LastFor == LastIs("For") /\ last = ForLoop(last[5][1])

\* <<"n", lo>>, ..., <<"n", hi>>: what print writes for lo, ..., hi.
PrintedRange(lo, hi) == [k \in 1..(hi - lo + 1) |-> <<"n", lo + k - 1>>]

PrintArray ==
    \E x \in {"a", "m"} :
        /\ Declared(world, x)
        /\ Exec(Node_Print(Node_Identifier(x)))

\* x[i];
IndexArray ==
    \E x \in {"a", "m"}, i \in {0, 1} :
        /\ Declared(world, x)
        /\ Exec(Node_Index(Node_Identifier(x), Node_Number(i)))

\* len(x);
MeasureArray ==
    \E x \in {"a", "m"} :
        /\ Declared(world, x)
        /\ Exec(Node_LenCall(Node_Identifier(x)))

NextLock == DeclareArray \/ IndexAssign \/ PrintArray \/ IndexArray \/ MeasureArray

SpecLock == Init /\ [][NextLock]_vars

(***************************************************************************)
(* C18  Lock discipline: no statement tries to lock an array's backing     *)
(* sequence while the lock is held, whatever the arrays hold, an array     *)
(* that holds a handle to itself (after `a[0] = a;`) included, when the    *)
(* array is printed, indexed or measured: no evaluation deadlocks.         *)
(***************************************************************************)
C18_NoRelock == result # <<"Deadlock">>

(***************************************************************************)
(* Verbose mode: interpret's is_verbose, handed down unchanged to every    *)
(* interpret_node, is kept in the world record.  The script runs with the  *)
(* flag set or unset from the start; out also holds the trace lines.       *)
(***************************************************************************)
InitVerbose ==
    /\ \E v \in BOOLEAN :
          /\ world = [Environment_new(<<>>, <<>>) EXCEPT !.is_verbose = v]
          /\ pre = [Environment_new(<<>>, <<>>) EXCEPT !.is_verbose = v]
    /\ status = "running"
    /\ result = <<"Ok", Value_Null>>
    /\ last = Node_Null
    /\ steps = 0
    /\ alias = NoAlias

\* func show(x) { print(x); return type(x); }
Show ==
    Node_FunctionDecl("show", <<"x">>,
                      <<Node_Print(Id("x")), Node_Return(<<"Type", Id("x")>>)>>)

DeclareShow ==
    /\ "show" \notin DOMAIN world.functions
    /\ Exec(Show)

\* show(a);   show(7);   show();
CallShow ==
    \E args \in {<<Id("a")>>, <<Node_Number(7)>>, <<>>} :
        /\ "show" \in DOMAIN world.functions
        /\ \A i \in 1..Len(args) : args[i][1] = "Identifier" => Declared(world, args[i][2])
        /\ Exec(Node_FunctionCall("show", args))

\* while (true) { if (true) { print(a); break; } }
\* if (false) { } else { var t = a; }
\* type(a);   del a;   import util;
TracedStatements ==
    {Node_While(True, <<Node_IfOnly(True, <<Node_Print(Id("a")), Node_Break>>)>>),
     Node_If(False, <<>>, <<>>, TRUE, <<Node_Var("t", Id("a"), TRUE)>>),
     <<"Type", Id("a")>>,
     Node_DelCall(Id("a")),
     Node_Import("util", NoMode)}

RunTraced ==
    \E node \in TracedStatements :
        /\ Declared(world, "a") \/ node[1] = "Import"
        /\ node[1] = "If" => CanDeclare("t")
        /\ Exec(node)

NextVerbose == DeclareArray \/ IndexAssign \/ PrintArray \/ DeclareShow \/ CallShow
                   \/ RunTraced

SpecVerbose == InitVerbose /\ [][NextVerbose]_vars

\* What a run leaves behind apart from its output.
Bindings(w) ==
    [scopes |-> w.scopes, functions |-> w.functions, libraries |-> w.libraries,
     heap |-> w.heap]

\* The last statement, run from the state it ran in with the flag the other way.
OtherMode == interpret_node(last, [pre EXCEPT !.is_verbose = ~pre.is_verbose], FALSE, Fuel)

(***************************************************************************)
(* C16  Verbose mode is non-interfering: a statement run with the flag set *)
(* and with it unset, from the same state, gives the same result Value or  *)
(* the same error, and the same variable bindings, function table, library *)
(* table and array contents.                                               *)
(***************************************************************************)
C16_VerboseNonInterfering ==
    steps > 0 =>
        /\ OtherMode.r = result
        /\ Bindings(OtherMode.w) = Bindings(world)

\* A verbose call of show on an array: the trace and `call print` are in out,
\* the quiet run of the same call prints one line, and both give the type.
C16_Witness ==
    /\ steps > 0
    /\ pre.is_verbose
    /\ last = Node_FunctionCall("show", <<Id("a")>>)
    /\ result = <<"Ok", Value_Type("array")>>
    /\ Len(OtherMode.w.out) = Len(pre.out) + 1
    /\ Len(world.out) > Len(pre.out) + 1
    /\ \E i \in 1..Len(world.out) : world.out[i][1] = "call print("

(***************************************************************************)
(* Loop scopes: loops whose body (or for initializer) declares variables,  *)
(* shadows an outer variable (after del, which takes the name out of the   *)
(* parser's table) and assigns to outer variables.  The parser keeps one   *)
(* table for all the statements outside functions, so a name declared in   *)
(* a loop is new to the script: the k-th statement has names of its own.   *)
(***************************************************************************)
LocalNames == <<"t1", "t2", "t3", "t4", "t5", "t6">>

CounterNames == <<"j1", "j2", "j3", "j4", "j5", "j6">>

LocalT == LocalNames[steps + 1]

LocalJ == CounterNames[steps + 1]

\* The declarations of a loop body:
\*   (none)    var t = c;    del(x); var x = 7;    del(x); novar x = 7;
BodyDecls(c) ==
    {<<>>,
     <<Node_Var(LocalT, Id(c), TRUE)>>,
     <<Node_DelCall(Id("x")), Node_Var("x", Node_Number(7), TRUE)>>,
     <<Node_DelCall(Id("x")), Node_Var("x", Node_Number(7), FALSE)>>}

\* The end of a loop body: nothing, or if (c == at) { break; }
BodyExits(c, at) ==
    {<<>>, <<Node_IfOnly(Node_BinaryOp(Id(c), "Equal", Node_Number(at)), <<Node_Break>>)>>}

\* while (i < 2) { i = i + 1; <decls> y = i; <exit> }
ScopedWhile(decls, exit) ==
    Node_While(Node_BinaryOp(Id("i"), "Less", Node_Number(2)),
               <<Node_Assign("i", Node_BinaryOp(Id("i"), "Plus", Node_Number(1)))>>
                   \o decls \o <<Node_Assign("y", Id("i"))>> \o exit)

\* for (var j = 0; j < 2; j = j + 1) { <decls> y = j; <exit> }
ScopedFor(j, decls, exit) ==
    Node_For(Node_Var(j, Node_Number(0), TRUE),
             Node_BinaryOp(Id(j), "Less", Node_Number(2)),
             Node_Assign(j, Node_BinaryOp(Id(j), "Plus", Node_Number(1))),
             decls \o <<Node_Assign("y", Id(j))>> \o exit)

\* var i = 0;   var y = 9;   var x = 1;   novar x = 1;
DeclareOuter ==
    \E d \in {<<"i", 0, TRUE>>, <<"y", 9, TRUE>>, <<"x", 1, TRUE>>, <<"x", 1, FALSE>>} :
        /\ CanDeclare(d[1])
        /\ Exec(Node_Var(d[1], Node_Number(d[2]), d[3]))

\* i = 0;
ResetCounter ==
    /\ Declared(world, "i")
    /\ Exec(Node_Assign("i", Node_Number(0)))

Shadows(decls) == Len(decls) = 2

RunScopedWhile ==
    \E decls \in BodyDecls("i"), exit \in BodyExits("i", 1) :
        /\ Declared(world, "i") /\ Declared(world, "y")
        /\ Shadows(decls) => Declared(world, "x")
        /\ Exec(ScopedWhile(decls, exit))

RunScopedFor ==
    \E decls \in BodyDecls(LocalJ), exit \in BodyExits(LocalJ, 0) :
        /\ Declared(world, "y")
        /\ Shadows(decls) => Declared(world, "x")
        /\ Exec(ScopedFor(LocalJ, decls, exit))

NextLoopScope == DeclareOuter \/ ResetCounter \/ RunScopedWhile \/ RunScopedFor

SpecLoopScope == Init /\ [][NextLoopScope]_vars

LastScopedLoop == steps > 0 /\ last[1] \in {"While", "For"}

\* Whether the last loop's body ends in if (c == at) { break; }.
LastBreaks ==
    LET body == IF last[1] = "While" THEN last[3] ELSE last[5]
    IN body[Len(body)][1] = "If"

\* The names the last loop declares, its for initializer included.
LastLoopDeclared ==
    LET body == IF last[1] = "While" THEN last[3] ELSE last[5]
    IN {body[k][2] : k \in {k \in 1..Len(body) : body[k][1] = "Var"}}
           \cup (IF last[1] = "For" THEN {last[2][2]} ELSE {})

\* What the last loop leaves in the outer variable y (and i, for a while).
LastLoopCount ==
    IF last[1] = "While"
    THEN (IF LastBreaks /\ get(pre, "i")[1][2] = 0 THEN 1 ELSE 2)
    ELSE (IF LastBreaks THEN 0 ELSE 1)

(***************************************************************************)
(* C21  Loop scoping: after a while or for loop has finished, by its       *)
(* condition or by break, the scope stack is as deep as before it; a name  *)
(* the loop declared (in its body or its for initializer) is not bound     *)
(* unless an outer binding of it exists, and then that binding has its     *)
(* value and mutability of before the loop; what the loop assigned to      *)
(* outer variables is kept.                                                *)
(***************************************************************************)
C21_LoopScoping ==
    (LastScopedLoop /\ LastOk) =>
        /\ Len(world.scopes) = Len(pre.scopes)
        /\ \A n \in LastLoopDeclared :
              IF Declared(pre, n) THEN Declared(world, n) /\ get(world, n) = get(pre, n)
              ELSE ~Declared(world, n)
        /\ (last[1] = "For" \/ get(pre, "i")[1][2] < 2) =>
              get(world, "y") = <<Value_Number(LastLoopCount), TRUE>>
        /\ (last[1] = "While" /\ get(pre, "i")[1][2] < 2) =>
              get(world, "i") = <<Value_Number(LastLoopCount), TRUE>>
        /\ \A n \in DOMAIN pre.scopes[1] \ {"i", "y"} :
              n \in DOMAIN world.scopes[1] /\ world.scopes[1][n] = pre.scopes[1][n]

\* A while that shadowed the immutable x by a mutable one and left by break:
\* x is the outer binding again, and y holds what the loop assigned.
C21_Witness ==
    /\ LastScopedLoop /\ LastOk
    /\ last[1] = "While" /\ LastBreaks
    /\ "x" \in LastLoopDeclared
    /\ get(pre, "x") = <<Value_Number(1), FALSE>>
    /\ get(world, "x") = <<Value_Number(1), FALSE>>
    /\ get(pre, "i")[1][2] = 0
    /\ get(world, "y") = <<Value_Number(1), TRUE>>

(***************************************************************************)
(* Taint check: mutable declarations and assignments whose right-hand side *)
(* is a plain identifier, over mutable and immutable array bindings.       *)
(***************************************************************************)
\* var b = [2, 1];
DeclareOwn ==
    /\ CanDeclare("b")
    /\ Exec(Node_Var("b", ArrayLiteral, TRUE))

\* t = s;
AssignFromIdentifier ==
    \E t \in {"a", "b"}, s \in {"a", "b", "m", "c"} :
        /\ Declared(world, t) /\ Declared(world, s)
        /\ Exec(Node_Assign(t, Node_Identifier(s)))

NextTaint == DeclareArray \/ DeclareOwn \/ DeclareFromIdentifier \/ AssignFromIdentifier
                 \/ IndexAssign

SpecTaint == Init /\ [][NextTaint]_vars

\* The last statement was `var b = a;` or `b = a;` (b an assignable variable)
\* with a bound to an array.
LastTaintTarget == last[2]

LastTaintSource == last[3][2]

LastTaintChecked ==
    /\ steps > 0
    /\ \/ last[1] = "Var" /\ last[4]
       \/ last[1] = "Assign" /\ Declared(pre, last[2]) /\ get(pre, last[2])[2]
    /\ last[3][1] = "Identifier"
    /\ Declared(pre, LastTaintSource)
    /\ IsArray(get(pre, LastTaintSource)[1])

(***************************************************************************)
(* C22  Taint check: `var b = a;` and `b = a;` with a plain identifier a   *)
(* bound immutably to an array fail with TypeError and leave b's binding   *)
(* as it was (not created, not changed); with a bound mutably they succeed *)
(* and b is bound to a's array.                                            *)
(***************************************************************************)
C22_TaintCheck ==
    LastTaintChecked =>
        IF get(pre, LastTaintSource)[2]
        THEN /\ result = <<"Ok", Value_Null>>
             /\ get(world, LastTaintTarget) = <<get(pre, LastTaintSource)[1], TRUE>>
             /\ world.heap = pre.heap
        ELSE /\ result = <<"Err", "TypeError">>
             /\ world.scopes = pre.scopes
             /\ world.heap = pre.heap

\* `b = m;` refused while b holds an array of its own, which it keeps.
C22_Witness ==
    /\ LastTaintChecked
    /\ last = Node_Assign("b", Node_Identifier("m"))
    /\ ~get(pre, "m")[2]
    /\ get(pre, "b")[1] # get(pre, "m")[1]
    /\ result = <<"Err", "TypeError">>
    /\ get(world, "b") = get(pre, "b")

\* `b = a;` accepted: afterwards b is bound to a's array.
C22_Witness_Mutable ==
    /\ LastTaintChecked
    /\ last = Node_Assign("b", Node_Identifier("a"))
    /\ get(pre, "b")[1] # get(pre, "a")[1]
    /\ get(world, "b")[1] = get(world, "a")[1]

(***************************************************************************)
(* && and ||: operands with effects of their own.  says(v) prints and      *)
(* returns v; pokes(x) writes into the array it is given and returns true; *)
(* print(1) as an expression prints and is Null; q is never declared.      *)
(***************************************************************************)
\* func says(v) { print("x"); return v; }
Says == Node_FunctionDecl("says", <<"v">>, <<Marker, Node_Return(Id("v"))>>)

\* func pokes(x) { x[0] = 7; return true; }
Pokes ==
    Node_FunctionDecl("pokes", <<"x">>,
                      <<Node_IndexAssign(Id("x"), Node_Number(0), Node_Number(7)),
                        Node_Return(True)>>)

DeclareProbe ==
    \E d \in {Says, Pokes} :
        /\ d[2] \notin DOMAIN world.functions
        /\ Exec(d)

LeftOperands ==
    {True, False, Node_Number(5), Node_Null,
     Node_FunctionCall("says", <<True>>), Node_FunctionCall("says", <<False>>)}

RightOperands ==
    {True, False, Node_Number(5),
     Node_FunctionCall("says", <<True>>), Node_FunctionCall("says", <<False>>),
     Node_FunctionCall("says", <<Node_Number(5)>>),
     Node_FunctionCall("pokes", <<Id("a")>>),
     Node_FunctionCall("print", <<Node_Number(1)>>),
     Id("q")}

\* The names an operand needs: the functions it calls, the variables it reads.
OperandReady(e) ==
    /\ e[1] = "FunctionCall" => e[2] \in DOMAIN world.functions
    /\ e = Node_FunctionCall("pokes", <<Id("a")>>) => Declared(world, "a")

\* L && R;   L || R;
Connect ==
    \E op \in {"And", "Or"}, l \in LeftOperands, r \in RightOperands :
        /\ OperandReady(l) /\ OperandReady(r)
        /\ Exec(Node_BinaryOp(l, op, r))

NextLogic == DeclareArray \/ DeclareProbe \/ Connect

SpecLogic == Init /\ [][NextLogic]_vars

LastConnect == steps > 0 /\ last[1] = "BinaryOp" /\ last[3] \in {"And", "Or"}

\* The left operand of the last && or || on its own, from the state before.
LeftAlone == interpret_node(last[2], pre, FALSE, Fuel)

\* The right operand on its own, once, from the state the left one left.
RightAlone == interpret_node(last[4], LeftAlone.w, FALSE, Fuel)

LeftDecides ==
    \/ last[3] = "And" /\ LeftAlone.r = <<"Ok", Value_Boolean(FALSE)>>
    \/ last[3] = "Or" /\ LeftAlone.r = <<"Ok", Value_Boolean(TRUE)>>

(***************************************************************************)
(* C23  Short-circuit: in L && R with L false, and in L || R with L true,  *)
(* R is not evaluated (the bindings, arrays, function table and output are *)
(* those L left) and the result is L's; in every other case R is evaluated *)
(* exactly once, and the result is the Boolean of the two operands, or     *)
(* TypeError when one of them is not a Boolean.                            *)
(***************************************************************************)
C23_ShortCircuit ==
    (LastConnect /\ IsOk(LeftAlone)) =>
        IF LeftDecides
        THEN /\ result = LeftAlone.r
             /\ world = LeftAlone.w
        ELSE /\ world = RightAlone.w
             /\ IsOk(RightAlone) =>
                   result = IF LeftAlone.r[2][1] = "Boolean" /\ RightAlone.r[2][1] = "Boolean"
                            THEN <<"Ok", Value_Boolean(IF last[3] = "And"
                                                       THEN LeftAlone.r[2][2] /\ RightAlone.r[2][2]
                                                       ELSE LeftAlone.r[2][2] \/ RightAlone.r[2][2])>>
                            ELSE <<"Err", "TypeError">>
             /\ ~IsOk(RightAlone) => result = RightAlone.r

\* false && pokes(a): a's array is untouched, though pokes(a) on its own
\* would have written into it.
C23_Witness ==
    /\ LastConnect
    /\ last = Node_BinaryOp(False, "And", Node_FunctionCall("pokes", <<Id("a")>>))
    /\ result = <<"Ok", Value_Boolean(FALSE)>>
    /\ world = pre
    /\ IsOk(RightAlone)
    /\ RightAlone.w.heap # pre.heap

\* true && says(true): the right operand has printed once.
C23_Witness_Evaluated ==
    /\ LastConnect
    /\ last = Node_BinaryOp(True, "And", Node_FunctionCall("says", <<True>>))
    /\ result = <<"Ok", Value_Boolean(TRUE)>>
    /\ Len(world.out) = Len(pre.out) + 1

(***************************************************************************)
(* continue in a for loop whose body leaves the counter alone.             *)
(***************************************************************************)
ForBounds == 0..2

ContinueAt == {0, 1}

\* The rest of the body after print(j):
\*   print("x");    continue; print("x");    if (j == at) { continue; } print("x");
ContinueShapes(j) ==
    {<<Marker>>, <<Node_Continue, Marker>>}
        \cup {<<Node_IfOnly(Node_BinaryOp(Id(j), "Equal", Node_Number(at)),
                            <<Node_Continue>>),
                Marker>> : at \in ContinueAt}

\* for (var j = 0; j < n; j = j + 1) { print(j); <rest> }
CountedFor(j, n, rest) ==
    Node_For(Node_Var(j, Node_Number(0), TRUE),
             Node_BinaryOp(Id(j), "Less", Node_Number(n)),
             Node_Assign(j, Node_BinaryOp(Id(j), "Plus", Node_Number(1))),
             <<Node_Print(Id(j))>> \o rest)

RunCountedFor ==
    \E n \in ForBounds :
        \E rest \in ContinueShapes(LocalJ) :
            /\ n \in ForBounds
            /\ Exec(CountedFor(LocalJ, n, rest))

NextCounted == DeclareOuter \/ RunCountedFor

SpecCounted == Init /\ [][NextCounted]_vars

LastCountedFor == steps > 0 /\ last[1] = "For"

\* The counters the last statement printed, in order.
CountersPrinted ==
    SelectSeq(SubSeq(world.out, Len(pre.out) + 1, Len(world.out)),
              LAMBDA line : line[1] = "n")

(***************************************************************************)
(* C24  In a for loop, continue skips the rest of the iteration and the    *)
(* loop then runs its update before it tests the condition again: a loop   *)
(* for (var j = 0; j < n; j = j + 1) whose body holds a continue and does  *)
(* not change j ends after n iterations, having printed 0, ..., n - 1.     *)
(***************************************************************************)
C24_ContinueRunsUpdate ==
    LastCountedFor =>
        /\ LastOk
        /\ CountersPrinted = PrintedRange(0, last[3][4][2] - 1)

(***************************************************************************)
(* Jumps in a function body, the function being called from inside a loop  *)
(* of the caller and from outside every loop.                              *)
(***************************************************************************)
\* func brk(n) { break; }   func cnt(n) { continue; }   func ret(n) { return n; }
Jumpers ==
    {Node_FunctionDecl("brk", <<"n">>, <<Node_Break>>),
     Node_FunctionDecl("cnt", <<"n">>, <<Node_Continue>>),
     Node_FunctionDecl("ret", <<"n">>, <<Node_Return(Id("n"))>>)}

JumperNames == {d[2] : d \in Jumpers}

DeclareJumper ==
    \E d \in Jumpers :
        /\ d[2] \notin DOMAIN world.functions
        /\ Exec(d)

\* while (i < 2) { i = i + 1; f(i); print(i); }
CallingLoop(f) ==
    Node_While(Node_BinaryOp(Id("i"), "Less", Node_Number(2)),
               <<Node_Assign("i", Node_BinaryOp(Id("i"), "Plus", Node_Number(1))),
                 Node_FunctionCall(f, <<Id("i")>>),
                 Node_Print(Id("i"))>>)

CallInLoop ==
    \E f \in JumperNames :
        /\ f \in DOMAIN world.functions /\ Declared(world, "i")
        /\ Exec(CallingLoop(f))

\* f(1);
CallOutsideLoop ==
    \E f \in JumperNames :
        /\ f \in DOMAIN world.functions
        /\ Exec(Node_FunctionCall(f, <<Node_Number(1)>>))

NextCallInLoop == DeclareCounter \/ ResetCounter \/ DeclareJumper \/ CallInLoop
                      \/ CallOutsideLoop

SpecCallInLoop == Init /\ [][NextCallInLoop]_vars

\* The last statement called brk or cnt, in a loop that runs at least once or
\* outside every loop.
LastCallsJumper ==
    /\ steps > 0
    /\ \/ last[1] = "FunctionCall" /\ last[2] \in {"brk", "cnt"}
       \/ /\ last[1] = "While" /\ last[3][2][2] \in {"brk", "cnt"}
          /\ get(pre, "i")[1][2] < 2

LastJumper == IF last[1] = "While" THEN last[3][2][2] ELSE last[2]

(***************************************************************************)
(* C25  A break or continue in a user function's body, with no loop around *)
(* it in that body, fails with BreakOutsideLoop / ContinueOutsideLoop also *)
(* when the function is called from inside a loop of the caller: the       *)
(* caller's loop is neither ended nor restarted by it.                     *)
(***************************************************************************)
C25_JumpStaysInFunction ==
    LastCallsJumper =>
        /\ result = <<"Err", IF LastJumper = "brk" THEN "BreakOutsideLoop"
                                                   ELSE "ContinueOutsideLoop">>
        /\ world.out = pre.out

(***************************************************************************)
(* The array of `novar m = [2, 1];` under statements that reach it through *)
(* other names: a parameter, an element of a mutable array, a built-in.    *)
(***************************************************************************)
\* func wr(p) { p[0] = 7; return 0; }
Writer ==
    Node_FunctionDecl("wr", <<"p">>,
                      <<Node_IndexAssign(Id("p"), Node_Number(0), Node_Number(7)),
                        Node_Return(Node_Number(0))>>)

DeclareWriter ==
    /\ "wr" \notin DOMAIN world.functions
    /\ Exec(Writer)

\* wr(a);   wr(m);
CallWriter ==
    \E x \in {"a", "m"} :
        /\ "wr" \in DOMAIN world.functions /\ Declared(world, x)
        /\ Exec(Node_FunctionCall("wr", <<Id(x)>>))

\* var box = [m];
DeclareBox ==
    /\ CanDeclare("box") /\ Declared(world, "m")
    /\ Exec(Node_Var("box", Node_Array(<<Id("m")>>), TRUE))

\* var b = box[0];
DeclareElement ==
    /\ CanDeclare("b") /\ Declared(world, "box")
    /\ Exec(Node_Var("b", Node_Index(Id("box"), Node_Number(0)), TRUE))

NextImmutable == DeclareArray \/ DeclareWriter \/ CallWriter \/ DeclareBox
                     \/ DeclareElement \/ IndexAssign \/ BareCall

SpecImmutable == Init /\ [][NextImmutable]_vars

(***************************************************************************)
(* C26  Immutability of data: the contents of the array created by         *)
(* `novar m = [2, 1];` stay [2, 1] under every sequence of statements,     *)
(* passing m to a user function that index-assigns its parameter, binding  *)
(* an element read `var b = box[0]` of an array that holds it, and calling *)
(* a mutating built-in on it included.                                     *)
(***************************************************************************)
C26_ImmutableContents ==
    Declared(world, "m") =>
        world.heap[get(world, "m")[1][2]] = <<Value_Number(2), Value_Number(1)>>

\* The last statement was a bare call of a mutating built-in on an immutable
\* array binding, and it failed with TypeError.
LastBareCallRefused ==
    /\ LastFirstArgIsVariable(FALSE)
    /\ last[1] = "FunctionCall"
    /\ result = <<"Err", "TypeError">>

(***************************************************************************)
(* C27  State is unchanged on error for the mutating built-ins: when a     *)
(* bare insert(x, v), insert(x, v, i), sort(x), reverse(x) or clear(x)     *)
(* fails with TypeError because x is an immutable binding, the array bound *)
(* to x holds after the call what it held before it.                       *)
(***************************************************************************)
C27_RefusedCallKeepsContents ==
    LastBareCallRefused =>
        /\ get(world, LastArgs[1][2]) = get(pre, LastArgs[1][2])
        /\ Contents(world, LastArgs[1]) = Contents(pre, LastArgs[1])

(***************************************************************************)
(* Conditions that are not Booleans, in if, while and for.                 *)
(***************************************************************************)
Conditions ==
    {True, False, Node_Number(5), Node_Number(0), Node_String(<<"a">>), Node_Null,
     ArrayLiteral}

OtherMarker == Node_Print(Node_String(<<"y">>))

\* if (c) { print("x"); } else { print("y"); }
\* while (c) { print("x"); break; }
\* for (var j = 0; c; j = j + 1) { print("x"); break; }
Conditionals(c, j) ==
    {Node_If(c, <<Marker>>, <<>>, TRUE, <<OtherMarker>>),
     Node_While(c, <<Marker, Node_Break>>),
     Node_For(Node_Var(j, Node_Number(0), TRUE), c,
              Node_Assign(j, Node_BinaryOp(Id(j), "Plus", Node_Number(1))),
              <<Marker, Node_Break>>)}

RunConditional ==
    \E c \in Conditions :
        \E node \in Conditionals(c, LocalJ) :
            /\ c \in Conditions
            /\ Exec(node)

NextCond == RunConditional

SpecCond == Init /\ [][NextCond]_vars

LastCondition == IF last[1] = "For" THEN last[3] ELSE last[2]

LastConditionNotBoolean ==
    /\ steps > 0
    /\ last[1] \in {"If", "While", "For"}
    /\ LastCondition[1] # "Boolean"

(***************************************************************************)
(* C28  An If, While or For whose condition evaluates to a value that is   *)
(* not a Boolean fails with an error and runs no branch and no body:       *)
(* While and For do not take it for true, If does not take it for false.   *)
(***************************************************************************)
C28_ConditionMustBeBoolean ==
    LastConditionNotBoolean =>
        /\ result[1] = "Err"
        /\ world.out = pre.out

(***************************************************************************)
(* del(x) at the top level and inside loop bodies, x being declared        *)
(* outside the loop, followed by reads and assignments of x.               *)
(***************************************************************************)
\* del(x);
\* while (true) { del(x); break; }
\* while (true) { while (true) { del(x); break; } break; }
\* for (var j = 0; j < 1; j = j + 1) { del(x); }
Deletions(j) ==
    {Node_DelCall(Id("x")),
     Node_While(True, <<Node_DelCall(Id("x")), Node_Break>>),
     Node_While(True, <<Node_While(True, <<Node_DelCall(Id("x")), Node_Break>>),
                        Node_Break>>),
     Node_For(Node_Var(j, Node_Number(0), TRUE),
              Node_BinaryOp(Id(j), "Less", Node_Number(1)),
              Node_Assign(j, Node_BinaryOp(Id(j), "Plus", Node_Number(1))),
              <<Node_DelCall(Id("x"))>>)}

\* while (true) { del(x); print(x); break; }
DeleteThenRead ==
    Node_While(True, <<Node_DelCall(Id("x")), Node_Print(Id("x")), Node_Break>>)

Delete ==
    \E node \in Deletions(LocalJ) \cup {DeleteThenRead} :
        /\ Declared(world, "x")
        /\ Exec(node)

\* print(x);   x = 5;
UseDeleted ==
    \E node \in {Node_Print(Id("x")), Node_Assign("x", Node_Number(5))} :
        /\ node[1] \in {"Print", "Assign"}
        /\ Exec(node)

NextDel == DeclareOuter \/ Delete \/ UseDeleted

SpecDel == Init /\ [][NextDel]_vars

LastDeleted ==
    /\ steps > 0
    /\ last \in Deletions(CounterNames[steps])
    /\ Declared(pre, "x")
    /\ LastOk

LastDeletedThenRead ==
    /\ steps > 0
    /\ last = DeleteThenRead
    /\ Declared(pre, "x")

(***************************************************************************)
(* C29  After del(x) has returned for a declared variable x, x is not      *)
(* resolvable: a read and an assignment of x that follow fail with         *)
(* VariableNotDeclared, whichever scope of the stack held x, also when     *)
(* del(x) runs in a loop body and x was declared outside the loop.         *)
(***************************************************************************)
C29_DeletedIsGone ==
    /\ LastDeleted =>
          /\ ~Declared(world, "x")
          /\ Read(world, Id("x")) = <<"Err", "VariableNotDeclared">>
          /\ interpret_node(Node_Assign("x", Node_Number(5)), world, FALSE, Fuel).r
                 = <<"Err", "VariableNotDeclared">>
    /\ LastDeletedThenRead => result = <<"Err", "VariableNotDeclared">>

\* (l / r).floor() as i32 on operands that hold i32 values, r # 0: the quotient
\* rounded toward negative infinity.  The f64 quotient of two i32 values never
\* rounds across an integer, so the floor is that of the exact quotient.
FloorDiv(l, r) ==
    IF TruncRem(l, r) # 0 /\ ((l < 0) # (r < 0))
    THEN TruncDiv(l, r) - 1
    ELSE TruncDiv(l, r)

(***************************************************************************)
(* C30  Floor division of Numbers rounds toward negative infinity: for     *)
(* all Number x and y # 0 whose quotient is an i32, r = x // y leaves      *)
(* floor(x / y) in r, as the Float rule (l / r).floor() does.              *)
(***************************************************************************)
C30_FloorDivideFloors ==
    (/\ LastDivision
     /\ last[3][3] = "FloorDivide"
     /\ LastRight # 0
     /\ ~(LastLeft = I32Min /\ LastRight = -1)) =>
        /\ LastOk
        /\ get(world, "r")[1] = Value_Number(FloorDiv(LastLeft, LastRight))

====
